---- MODULE Spec2Model ----
(***************************************************************************)
(* A model of the retrieval engine of python-validator-agent: the          *)
(* RAGEngine searches, buildEnhancedContext, the prompt assembly, the      *)
(* compliance heuristic and the embedding client's text normaliser.        *)
(*                                                                         *)
(* Texts are sequences of one-character strings.  Similarities, distances  *)
(* and thresholds are integers in units of 1/Unit (0.72 is 7200), so the   *)
(* SQL arithmetic (1 - distance, similarity * 1.3) is exact.               *)
(***************************************************************************)
EXTENDS Integers, Sequences, FiniteSets, TLC

VARIABLES
  docs,     \* rows of knowledge_documents, in insertion order
  exs,      \* rows of code_examples, in insertion order
  call,     \* the RAGEngine operation last invoked, with its arguments
  ret,      \* what that operation delivered to its caller
  bec,      \* the buildEnhancedContext call in flight: its three searches
  pc,       \* position of the function-level specifications
  input,    \* argument of the function under study
  output    \* its results

vars == <<docs, exs, call, ret, bec, pc, input, output>>

(***************************************************************************)
(* Strings                                                                 *)
(***************************************************************************)
Min(a, b) == IF a < b THEN a ELSE b

Max(a, b) == IF a > b THEN a ELSE b

UpperCase == <<"A", "B", "C", "D", "E", "F", "G", "H", "I", "J", "K", "L", "M", "N", "O", "P", "Q", "R", "S", "T", "U", "V", "W", "X", "Y", "Z">>

LowerCase == <<"a", "b", "c", "d", "e", "f", "g", "h", "i", "j", "k", "l", "m", "n", "o", "p", "q", "r", "s", "t", "u", "v", "w", "x", "y", "z">>

UpperToLower ==
  [c \in {UpperCase[k] : k \in DOMAIN UpperCase} |->
     LowerCase[CHOOSE k \in DOMAIN UpperCase : UpperCase[k] = c]]

LowerChar(c) == IF c \in DOMAIN UpperToLower THEN UpperToLower[c] ELSE c

\* String.prototype.toLowerCase
toLowerCase(s) == [i \in DOMAIN s |-> LowerChar(s[i])]

\* String.prototype.slice(a, b) for 0 <= a <= b
Slice(s, a, b) == SubSeq(s, a + 1, Min(b, Len(s)))

\* String.prototype.includes
Includes(s, p) ==
  \E i \in 0..(Len(s) - Len(p)) : SubSeq(s, i + 1, i + Len(p)) = p

\* SQL: s ILIKE '%p%'.  Case-insensitive; "_" in the pattern matches any one
\* character; a NULL (here: empty) s matches nothing.
ILikeContains(s, p) ==
  \E i \in 0..(Len(s) - Len(p)) :
    \A j \in 1..Len(p) : p[j] = "_" \/ LowerChar(s[i + j]) = LowerChar(p[j])

(***************************************************************************)
(* TitanEmbeddingClient.preprocessText                                     *)
(***************************************************************************)
\* the characters of the model that the regular expression class \s matches
IsSpace(c) == c \in {" ", "\n", "\t"}

IsNewline(c) == c = "\n"

\* String.prototype.replace(/C+/g, rep): every maximal run of characters of
\* the class C becomes one rep
ReplaceRuns(s, InClass(_), rep) ==
  LET marked == [i \in 1..Len(s) |->
                   IF InClass(s[i])
                     THEN (IF i > 1 /\ InClass(s[i - 1]) THEN "" ELSE rep)
                     ELSE s[i]]
  IN SelectSeq(marked, LAMBDA c : c # "")

RECURSIVE TrimStart(_)
TrimStart(s) ==
  IF s = <<>> \/ ~IsSpace(Head(s)) THEN s ELSE TrimStart(Tail(s))

RECURSIVE TrimEnd(_)
TrimEnd(s) ==
  IF s = <<>> \/ ~IsSpace(s[Len(s)]) THEN s ELSE TrimEnd(SubSeq(s, 1, Len(s) - 1))

\* String.prototype.trim
Trim(s) == TrimEnd(TrimStart(s))

MaxInputLength == 8000

preprocessText(t) ==
  Slice(Trim(ReplaceRuns(ReplaceRuns(t, IsSpace, " "), IsNewline, "\n")),
        0, MaxInputLength)

(***************************************************************************)
(* The document and example collections                                    *)
(***************************************************************************)
Unit == 10000

PantherRuleLabel == <<"P", "a", "n", "t", "h", "e", "r", " ", "R", "u", "l", "e">>

WritingDetectionsLabel == <<"W", "r", "i", "t", "i", "n", "g", " ", "P", "y", "t", "h", "o", "n", " ", "D", "e", "t", "e", "c", "t", "i", "o", "n", "s">>

\* section, documentType, content and metadata category of the documents the
\* model stores.  A NULL section is the empty text: the engine treats the two
\* alike (result.section || undefined, NULL ILIKE ... is not true).  A
\* metadata without category is the category "none".
DocKinds ==
  { [section |-> PantherRuleLabel, documentType |-> "rule", category |-> "aws",
     content |-> <<"d", "e", "f", " ", "r", "u", "l", "e", "(", "e", ")", ":">>],
    [section |-> <<"w", "r", "i", "t", "i", "n", "g", " ", "p", "y", "t", "h", "o", "n", " ", "d", "e", "t", "e", "c", "t", "i", "o", "n", "s", " ", "2">>,
     documentType |-> "best-practice", category |-> "aws",
     content |-> <<"u", "s", "e", " ", "D", "e", "e", "p", " ", "G", "e", "t">>],
    [section |-> <<>>, documentType |-> "rule", category |-> "none",
     content |-> <<"p", "r", "o", "s", "e">>],
    [section |-> <<>>, documentType |-> "best-practice", category |-> "okta",
     content |-> <<"n", "o", "t", "e", "s">>],
    [section |-> PantherRuleLabel, documentType |-> "best-practice", category |-> "none",
     content |-> <<"t", "i", "t", "l", "e", " ", "(">>] }

\* cosine distances (embedding <=> query) of the stored rows to the query:
\* similarities 0.80, 0.75, 0.72 and 0.40
Distances == {2000, 2500, 2800, 6000}

\* what one row can be: a kind at one of the distances, and two further rows:
\* one with a NULL embedding, one pointing away from the query (similarity -0.2)
DocChoices ==
  { [kind |-> k, embedded |-> TRUE, distance |-> d] : k \in DocKinds, d \in Distances }
    \cup { [kind |-> k, embedded |-> e, distance |-> 12000] :
              k \in {j \in DocKinds : j.section = PantherRuleLabel /\ j.documentType = "rule"},
              e \in BOOLEAN }

ExampleChoices ==
  { [embedded |-> TRUE, distance |-> d] : d \in {3000} }

MaxDocs == 2

MaxExamples == 1

MakeDoc(i, c) ==
  [id |-> i, title |-> <<"D", ToString(i)>>, content |-> c.kind.content,
   section |-> c.kind.section, documentType |-> c.kind.documentType,
   category |-> c.kind.category,
   embedded |-> c.embedded, distance |-> c.distance]

MakeExample(i, c) ==
  [id |-> i, title |-> <<"E", ToString(i)>>,
   codeContent |-> <<"x", "=", "1">>, qualityScore |-> 90,
   category |-> <<>>, description |-> <<>>,
   embedded |-> c.embedded, distance |-> c.distance]

DocCollections ==
  UNION { { [i \in 1..n |-> MakeDoc(i, f[i])] : f \in [1..n -> DocChoices] } : n \in 0..MaxDocs }

ExampleCollections ==
  UNION { { [i \in 1..n |-> MakeExample(i, f[i])] : f \in [1..n -> ExampleChoices] } : n \in 0..MaxExamples }

DocById(i) == docs[CHOOSE k \in DOMAIN docs : docs[k].id = i]

(***************************************************************************)
(* SQL fragments of the searches                                           *)
(***************************************************************************)
\* 1 - (embedding <=> queryEmbedding)
Similarity(d) == Unit - d.distance

\* WithinDistance with the similarity compared where the distance belongs
WithinDistanceSimilarity(d, maxDistance) == d.embedded /\ Similarity(d) < maxDistance

\* WHERE embedding <=> queryEmbedding < 1 - minSimilarity ; a NULL embedding
\* makes the comparison NULL and the row is not selected
WithinDistance(d, maxDistance) == d.embedded /\ d.distance < maxDistance

\* weightedScore with the authority factors of searchWithMetadataFiltering
\* (1.0, 0.9, 0.8, 0.4), which lower a score
weightedScoreAuthority(d) ==
  IF ILikeContains(d.section, PantherRuleLabel) /\ d.documentType = "rule"
    THEN Similarity(d)
  ELSE IF ILikeContains(d.section, WritingDetectionsLabel)
    THEN (Similarity(d) * 9) \div 10
  ELSE IF d.documentType = "rule"
    THEN (Similarity(d) * 8) \div 10
  ELSE (Similarity(d) * 4) \div 10

\* weightedScore with the document type tested before the section labels
weightedScoreTypeFirst(d) ==
  IF d.documentType = "rule"
    THEN (Similarity(d) * 11) \div 10
  ELSE IF ILikeContains(d.section, PantherRuleLabel) /\ d.documentType = "rule"
    THEN (Similarity(d) * 13) \div 10
  ELSE IF ILikeContains(d.section, WritingDetectionsLabel)
    THEN (Similarity(d) * 12) \div 10
  ELSE Similarity(d)

\* the CASE of the select list of searchPantherRules (weightedScore)
weightedScore(d) ==
  IF ILikeContains(d.section, PantherRuleLabel) /\ d.documentType = "rule"
    THEN (Similarity(d) * 13) \div 10
  ELSE IF ILikeContains(d.section, WritingDetectionsLabel)
    THEN (Similarity(d) * 12) \div 10
  ELSE IF d.documentType = "rule"
    THEN (Similarity(d) * 11) \div 10
  ELSE Similarity(d)

\* pantherOrderKey ordering by the raw similarity, as the other searches do
pantherOrderKeyRaw(d) == Similarity(d)

\* the CASE of the ORDER BY of searchPantherRules
pantherOrderKey(d) ==
  IF ILikeContains(d.section, PantherRuleLabel) /\ d.documentType = "rule"
    THEN (Similarity(d) * 13) \div 10
  ELSE IF ILikeContains(d.section, WritingDetectionsLabel)
    THEN (Similarity(d) * 12) \div 10
  ELSE IF d.documentType = "rule"
    THEN (Similarity(d) * 11) \div 10
  ELSE Similarity(d)

\* ORDER BY key DESC: every arrangement of the rows with non-increasing keys
\* (SQL leaves the order of rows with equal keys open)
OrderByDesc(rows, Key(_)) ==
  { [i \in 1..Len(rows) |-> rows[p[i]]] : p \in
      { q \in Permutations(1..Len(rows)) :
          \A i, j \in 1..Len(rows) : i < j => Key(rows[q[i]]) >= Key(rows[q[j]]) } }

\* LIMIT topK
Limit(rows, topK) == SubSeq(rows, 1, Min(topK, Len(rows)))

\* results.map(result => ({...})) of the document searches
ToSearchResult(d, similarity) ==
  [id |-> d.id, title |-> d.title, content |-> d.content, section |-> d.section,
   documentType |-> d.documentType, similarity |-> similarity]

ToExampleResult(e) ==
  [id |-> e.id, title |-> e.title, codeContent |-> e.codeContent,
   qualityScore |-> e.qualityScore, category |-> e.category,
   description |-> e.description, similarity |-> Similarity(e)]

MapSeq(s, F(_)) == [i \in DOMAIN s |-> F(s[i])]

PantherRuleKeywords ==
  { <<"r", "u", "l", "e", "(">>,
    <<"s", "e", "v", "e", "r", "i", "t", "y", "(">>,
    <<"t", "i", "t", "l", "e", "(">>,
    <<"d", "e", "d", "u", "p", "(">>,
    <<"r", "u", "n", "b", "o", "o", "k", "(">>,
    <<"d", "e", "e", "p", "_", "g", "e", "t">>,
    <<"d", "e", "e", "p", "_", "w", "a", "l", "k">>,
    <<"e", "v", "e", "n", "t", ".", "g", "e", "t">>,
    <<"e", "v", "e", "n", "t", ".", "u", "d", "m">> }

\* the keyword disjunction of the WHERE of searchByPantherFunctions
HasPantherKeyword(d) == \E k \in PantherRuleKeywords : ILikeContains(d.content, k)

FunctionSearchMaxDistance == 5000

\* the result sets of the four queries, before the failure handling
PantherRulesRows(topK, minSimilarity) ==
  { MapSeq(Limit(o, topK), LAMBDA d : ToSearchResult(d, weightedScore(d))) :
      o \in OrderByDesc(SelectSeq(docs, LAMBDA d : WithinDistance(d, Unit - minSimilarity)),
                        pantherOrderKey) }

RelevantRulesRows(topK, minSimilarity) ==
  { MapSeq(Limit(o, topK), LAMBDA d : ToSearchResult(d, Similarity(d))) :
      o \in OrderByDesc(SelectSeq(docs, LAMBDA d : WithinDistance(d, Unit - minSimilarity)),
                        LAMBDA d : 0 - d.distance) }

SimilarExamplesRows(topK, minSimilarity) ==
  { MapSeq(Limit(o, topK), ToExampleResult) :
      o \in OrderByDesc(SelectSeq(exs, LAMBDA e : WithinDistance(e, Unit - minSimilarity)),
                        LAMBDA e : 0 - e.distance) }

PantherFunctionsRows(topK) ==
  { MapSeq(Limit(o, topK), LAMBDA d : ToSearchResult(d, Similarity(d))) :
      o \in OrderByDesc(SelectSeq(docs, LAMBDA d : HasPantherKeyword(d)
                                          /\ WithinDistance(d, FunctionSearchMaxDistance)),
                        Similarity) }

\* a query without ORDER BY: the rows in any order
AnyOrder(rows) ==
  { [i \in 1..Len(rows) |-> rows[p[i]]] : p \in Permutations(1..Len(rows)) }

\* searchByCategory: WHERE metadata->>'category' = category LIMIT topK, and
\* similarity: 1.0
CategoryRows(category, topK) ==
  { [i \in DOMAIN Limit(o, topK) |-> ToSearchResult(o[i], Unit)] :
      o \in AnyOrder(SelectSeq(docs, LAMBDA d : d.category = category)) }

(***************************************************************************)
(* The searches as operations of the engine                                *)
(***************************************************************************)
\* topK arguments: 1, and the 2, 3 that buildEnhancedContext passes
TopKs == {1, 2, 3}

\* minSimilarity arguments: 0, and the defaults 0.7 and 0.75 of the code
MinSimilarities == {0, 7000, 7500}

NoCall == [op |-> "none"]

NoRet == [status |-> "none", rows |-> <<>>]

Returned(rows) == [status |-> "ok", rows |-> rows]

Thrown == [status |-> "error", rows |-> <<>>]

\* generateEmbedding or the query may throw; the catch blocks of
\* searchPantherRules, searchRelevantRules and searchSimilarExamples rethrow,
\* the one of searchByPantherFunctions returns []
searchPantherRules(topK, minSimilarity, fails) ==
  /\ call = NoCall
  /\ call' = [op |-> "searchPantherRules", topK |-> topK,
              minSimilarity |-> minSimilarity, fails |-> fails]
  /\ IF fails
       THEN ret' = Thrown
       ELSE \E rows \in PantherRulesRows(topK, minSimilarity) : ret' = Returned(rows)
  /\ UNCHANGED <<docs, exs, bec, pc, input, output>>

\* searchRelevantRules whose catch returns [], as searchByPantherFunctions does
searchRelevantRulesAbsorbs(topK, minSimilarity, fails) ==
  /\ call = NoCall
  /\ call' = [op |-> "searchRelevantRules", topK |-> topK,
              minSimilarity |-> minSimilarity, fails |-> fails]
  /\ IF fails
       THEN ret' = Returned(<<>>)
       ELSE \E rows \in RelevantRulesRows(topK, minSimilarity) : ret' = Returned(rows)
  /\ UNCHANGED <<docs, exs, bec, pc, input, output>>

searchRelevantRules(topK, minSimilarity, fails) ==
  /\ call = NoCall
  /\ call' = [op |-> "searchRelevantRules", topK |-> topK,
              minSimilarity |-> minSimilarity, fails |-> fails]
  /\ IF fails
       THEN ret' = Thrown
       ELSE \E rows \in RelevantRulesRows(topK, minSimilarity) : ret' = Returned(rows)
  /\ UNCHANGED <<docs, exs, bec, pc, input, output>>

searchSimilarExamples(topK, minSimilarity, fails) ==
  /\ call = NoCall
  /\ call' = [op |-> "searchSimilarExamples", topK |-> topK,
              minSimilarity |-> minSimilarity, fails |-> fails]
  /\ IF fails
       THEN ret' = Thrown
       ELSE \E rows \in SimilarExamplesRows(topK, minSimilarity) : ret' = Returned(rows)
  /\ UNCHANGED <<docs, exs, bec, pc, input, output>>

searchByPantherFunctions(topK, fails) ==
  /\ call = NoCall
  /\ call' = [op |-> "searchByPantherFunctions", topK |-> topK,
              minSimilarity |-> Unit - FunctionSearchMaxDistance, fails |-> fails]
  /\ IF fails
       THEN ret' = Returned(<<>>)
       ELSE \E rows \in PantherFunctionsRows(topK) : ret' = Returned(rows)
  /\ UNCHANGED <<docs, exs, bec, pc, input, output>>

\* category arguments: two that stored documents carry and one that none does
Categories == {"aws", "okta", "gcp"}

\* searchByCategory whose catch rethrows, as the similarity searches do
searchByCategoryRethrows(category, topK, fails) ==
  /\ call = NoCall
  /\ call' = [op |-> "searchByCategory", topK |-> topK, category |-> category,
              fails |-> fails]
  /\ IF fails
       THEN ret' = Thrown
       ELSE \E rows \in CategoryRows(category, topK) : ret' = Returned(rows)
  /\ UNCHANGED <<docs, exs, bec, pc, input, output>>

\* the query may throw (no embedding is made); the catch returns []
searchByCategory(category, topK, fails) ==
  /\ call = NoCall
  /\ call' = [op |-> "searchByCategory", topK |-> topK, category |-> category,
              fails |-> fails]
  /\ IF fails
       THEN ret' = Returned(<<>>)
       ELSE \E rows \in CategoryRows(category, topK) : ret' = Returned(rows)
  /\ UNCHANGED <<docs, exs, bec, pc, input, output>>

\* the statistics of the four queries of getSearchStats; documentTypes and
\* exampleCategories map each value present to its row count (examples
\* without a category are not counted there)
SearchStats ==
  [totalDocuments |-> Len(docs),
   totalExamples |-> Len(exs),
   documentTypes |->
     [t \in {docs[k].documentType : k \in DOMAIN docs} |->
        Cardinality({k \in DOMAIN docs : docs[k].documentType = t})],
   exampleCategories |->
     [c \in {exs[k].category : k \in DOMAIN exs} \ {<<>>} |->
        Cardinality({k \in DOMAIN exs : exs[k].category = c})]]

\* the value the catch block of getSearchStats returns
NoStats ==
  [totalDocuments |-> 0, totalExamples |-> 0,
   documentTypes |-> <<>>, exampleCategories |-> <<>>]

\* a storage query may throw; the catch returns statistics of zeros
getSearchStats(fails) ==
  /\ call = NoCall
  /\ call' = [op |-> "getSearchStats", fails |-> fails]
  /\ ret' = [status |-> "ok", rows |-> <<>>,
             stats |-> IF fails THEN NoStats ELSE SearchStats]
  /\ UNCHANGED <<docs, exs, bec, pc, input, output>>

(***************************************************************************)
(* Prompt assembly (buildPromptWithRAG)                                    *)
(*                                                                         *)
(* A prompt is a sequence whose elements are the characters of the data    *)
(* it quotes (titles, sections, contents, code) and, as one element each,  *)
(* the fixed pieces of the template and the formatted numbers.             *)
(***************************************************************************)
Dots == <<".", ".", ".">>

TruncatedComment == <<"\n", "#", " ", ".", ".", ".", " ", "(", "t", "r", "u", "n", "c", "a", "t", "e", "d", ")">>

OfficialBudget == 1000

OtherBudget == 600

ExampleBudget == 600

GenericBudget == 800

\* Truncate that appends the marker already at text.length = budget
TruncateMarksAtBudget(text, budget, marker) ==
  Slice(text, 0, budget) \o (IF Len(text) >= budget THEN marker ELSE <<>>)

\* ${text.slice(0, budget)}${text.length > budget ? marker : ''}
Truncate(text, budget, marker) ==
  Slice(text, 0, budget) \o (IF Len(text) > budget THEN marker ELSE <<>>)

RECURSIVE Flatten(_)
Flatten(ss) == IF ss = <<>> THEN <<>> ELSE Head(ss) \o Flatten(Tail(ss))

\* (similarity * 100).toFixed(1)
Fixed1(similarity) ==
  LET tenths == (similarity + 5) \div 10
  IN <<ToString(tenths \div 10), ".", ToString(tenths % 10)>>

\* ### ${index + 1}. ${doc.title},  - ${doc.section} if there is one,
\*  (label: ${(doc.similarity * 100).toFixed(1)}%)\n
DocHeading(doc, index, label) ==
  <<"### ", ToString(index), ". ">> \o doc.title
    \o (IF doc.section # <<>> THEN <<" - ">> \o doc.section ELSE <<>>)
    \o <<label>> \o Fixed1(doc.similarity) \o <<"%)\n">>

ExampleBlock(example, index) ==
  <<"### example ", ToString(index), ": ">> \o example.title
    \o <<" (quality: ", ToString(example.qualityScore), "/100, similarity: ">>
    \o Fixed1(example.similarity) \o <<"%)\n">>
    \o (IF example.description # <<>>
          THEN <<"**description**: ">> \o example.description \o <<"\n">> ELSE <<>>)
    \o (IF example.category # <<>>
          THEN <<"**category**: ">> \o example.category \o <<"\n">> ELSE <<>>)
    \o <<"**code**:\n[fence]python\n">>
    \o Truncate(example.codeContent, ExampleBudget, TruncatedComment)
    \o <<"\n[fence]\n\n">>

ExamplesSection(examples) ==
  IF Len(examples) > 0
    THEN <<"## similar code examples:\n\n">>
           \o Flatten([i \in DOMAIN examples |-> ExampleBlock(examples[i], i)])
    ELSE <<>>

\* doc.section?.includes('Panther Rule') || doc.section?.includes('Writing
\* Python Detections') || doc.documentType === 'rule'
IsOfficialRule(doc) ==
  \/ Includes(doc.section, PantherRuleLabel)
  \/ Includes(doc.section, WritingDetectionsLabel)
  \/ doc.documentType = "rule"

OfficialBlock(doc, index) ==
  DocHeading(doc, index, " (authority: ")
    \o <<"**key requirements**: ">>
    \o Truncate(doc.content, OfficialBudget, Dots) \o <<"\n\n">>

OtherBlock(doc, index) ==
  DocHeading(doc, index, " (relevance: ")
    \o Truncate(doc.content, OtherBudget, Dots) \o <<"\n\n">>

\* RAGEngine.buildPromptWithRAG of the Panther-specific engine
buildPromptWithRAG(documents, examples) ==
  LET officialRules == SelectSeq(documents, IsOfficialRule)
      otherDocs == SelectSeq(documents,
                     LAMBDA d : ~\E k \in DOMAIN officialRules : officialRules[k] = d)
  IN <<"role statement\n\n">>
       \o (IF Len(officialRules) > 0
             THEN <<"## official Panther rule guidelines:\n\n">>
                    \o Flatten([i \in DOMAIN officialRules |-> OfficialBlock(officialRules[i], i)])
             ELSE <<>>)
       \o (IF Len(otherDocs) > 0
             THEN <<"## further reference documents:\n\n">>
                    \o Flatten([i \in DOMAIN otherDocs |-> OtherBlock(otherDocs[i], i)])
             ELSE <<>>)
       \o ExamplesSection(examples)
       \o <<"## Panther rule compliance criteria:\n\n">>
       \o (IF Len(officialRules) > 0
             THEN <<"### checklist from the official rules", "1. required functions",
                    "2. built-in functions", "3. security and performance">>
             ELSE <<>>)
       \o <<"### further quality criteria", "### important instructions",
            "answer in Korean, JSON only">>

GenericBlock(doc, index) ==
  DocHeading(doc, index, " (relevance: ")
    \o Truncate(doc.content, GenericBudget, Dots) \o <<"\n\n">>

\* RAGEngine.buildPromptWithRAG of the generic engine
buildPromptWithRAGGeneric(documents, examples) ==
  <<"role statement\n\n">>
    \o (IF Len(documents) > 0
          THEN <<"## related Panther rule documents:\n\n">>
                 \o Flatten([i \in DOMAIN documents |-> GenericBlock(documents[i], i)])
          ELSE <<>>)
    \o ExamplesSection(examples)
    \o <<"## evaluation criteria:\n", "criteria", "important", "answer in Korean, JSON only">>

(***************************************************************************)
(* buildEnhancedContext                                                    *)
(***************************************************************************)
Pending == [status |-> "pending", rows |-> <<>>]

BecIdle == [phase |-> "idle"]

MaxRelevantDocuments == 5

\* FilterSeen that keeps every row
FilterSeenNothing(rows) == rows

\* .filter(doc => { if (seenIds.has(doc.id)) return false; seenIds.add(doc.id);
\* return true })
FilterSeen(rows) ==
  LET kept == SelectSeq([i \in DOMAIN rows |-> i],
                        LAMBDA i : \A j \in 1..(i - 1) : rows[j].id # rows[i].id)
  IN [k \in DOMAIN kept |-> rows[kept[k]]]

\* MergeDocuments that spreads the keyword results first
MergeDocumentsKeywordFirst(pantherRules, functionDocs) ==
  Slice(FilterSeen(functionDocs \o pantherRules), 0, MaxRelevantDocuments)

\* [...pantherRules, ...functionDocs].filter(unseen id).slice(0, 5)
MergeDocuments(pantherRules, functionDocs) ==
  Slice(FilterSeen(pantherRules \o functionDocs), 0, MaxRelevantDocuments)

\* the RAGContext the method returns (the wall-clock queryProcessingTime is
\* left out)
EnhancedContext(pantherRules, functionDocs, similarExamples) ==
  LET relevantDocuments == MergeDocuments(pantherRules, functionDocs)
  IN [relevantDocuments |-> relevantDocuments,
      similarExamples |-> similarExamples,
      enhancedPrompt |-> buildPromptWithRAG(relevantDocuments, similarExamples),
      searchMetadata |-> [documentsFound |-> Len(relevantDocuments),
                          examplesFound |-> Len(similarExamples)]]

\* the three searches started, none settled; order lists the searches in the
\* order in which they settle
BecSearching ==
  [phase |-> "searching", pantherRules |-> Pending,
   functionDocs |-> Pending, similarExamples |-> Pending, failed |-> {},
   order |-> <<>>]

\* Promise.all([...]) starts the three searches
BecStart ==
  /\ call = NoCall
  /\ call' = [op |-> "buildEnhancedContext"]
  /\ bec' = BecSearching
  /\ UNCHANGED <<docs, exs, ret, pc, input, output>>

\* this.searchPantherRules(code, 3, 0.75) settles
BecPantherRules(fails) ==
  /\ bec.phase = "searching"
  /\ bec.pantherRules = Pending
  /\ \E out \in (IF fails THEN {Thrown}
                          ELSE {Returned(rows) : rows \in PantherRulesRows(3, 7500)}) :
       bec' = [bec EXCEPT !.pantherRules = out,
                          !.failed = IF fails THEN @ \cup {"pantherRules"} ELSE @,
                          !.order = Append(@, "pantherRules")]
  /\ UNCHANGED <<docs, exs, call, ret, pc, input, output>>

\* this.searchByPantherFunctions(code, 2) settles
BecFunctionDocs(fails) ==
  /\ bec.phase = "searching"
  /\ bec.functionDocs = Pending
  /\ \E out \in (IF fails THEN {Returned(<<>>)}
                          ELSE {Returned(rows) : rows \in PantherFunctionsRows(2)}) :
       bec' = [bec EXCEPT !.functionDocs = out,
                          !.failed = IF fails THEN @ \cup {"functionDocs"} ELSE @,
                          !.order = Append(@, "functionDocs")]
  /\ UNCHANGED <<docs, exs, call, ret, pc, input, output>>

\* BecSimilarExamples with a catch that returns [], as searchByPantherFunctions has
BecSimilarExamplesAbsorbed(fails) ==
  /\ bec.phase = "searching"
  /\ bec.similarExamples = Pending
  /\ \E out \in (IF fails THEN {Returned(<<>>)}
                          ELSE {Returned(rows) : rows \in SimilarExamplesRows(3, 6500)}) :
       bec' = [bec EXCEPT !.similarExamples = out,
                          !.failed = IF fails THEN @ \cup {"similarExamples"} ELSE @,
                          !.order = Append(@, "similarExamples")]
  /\ UNCHANGED <<docs, exs, call, ret, pc, input, output>>

\* this.searchSimilarExamples(code, 3, 0.65) settles
BecSimilarExamples(fails) ==
  /\ bec.phase = "searching"
  /\ bec.similarExamples = Pending
  /\ \E out \in (IF fails THEN {Thrown}
                          ELSE {Returned(rows) : rows \in SimilarExamplesRows(3, 6500)}) :
       bec' = [bec EXCEPT !.similarExamples = out,
                          !.failed = IF fails THEN @ \cup {"similarExamples"} ELSE @,
                          !.order = Append(@, "similarExamples")]
  /\ UNCHANGED <<docs, exs, call, ret, pc, input, output>>

\* bec.failed records the searches whose embedding call or query threw.
\* Promise.all fulfils: merge, build the prompt, return the context
BecResolve ==
  /\ bec.phase = "searching"
  /\ bec.pantherRules.status = "ok"
  /\ bec.functionDocs.status = "ok"
  /\ bec.similarExamples.status = "ok"
  /\ ret' = [status |-> "ok",
             context |-> EnhancedContext(bec.pantherRules.rows, bec.functionDocs.rows,
                                         bec.similarExamples.rows)]
  /\ bec' = [bec EXCEPT !.phase = "settled"]
  /\ UNCHANGED <<docs, exs, call, pc, input, output>>

\* Promise.all rejects as soon as one search has thrown; catch rethrows
BecReject ==
  /\ bec.phase = "searching"
  /\ \/ bec.pantherRules.status = "error"
     \/ bec.similarExamples.status = "error"
  /\ ret' = Thrown
  /\ bec' = [bec EXCEPT !.phase = "settled"]
  /\ UNCHANGED <<docs, exs, call, pc, input, output>>

\* the caller has taken the outcome; the engine holds nothing of the call
\* (no result set is cached or shared between calls)
Forget ==
  /\ call # NoCall
  /\ ret # NoRet
  /\ call' = NoCall
  /\ ret' = NoRet
  /\ bec' = BecIdle
  /\ UNCHANGED <<docs, exs, pc, input, output>>

(***************************************************************************)
(* The compliance heuristic (extractRulePatterns,                          *)
(* buildRuleComplianceContext)                                             *)
(***************************************************************************)
IsSentenceEnd(c) == c \in {".", "!", "?"}

\* String.prototype.split(/[.!?]+/)
RECURSIVE SplitSentences(_)
SplitSentences(s) ==
  IF ~\E i \in DOMAIN s : IsSentenceEnd(s[i])
    THEN <<s>>
    ELSE LET first == CHOOSE i \in DOMAIN s :
                        IsSentenceEnd(s[i]) /\ \A j \in 1..(i - 1) : ~IsSentenceEnd(s[j])
             rest  == CHOOSE j \in (first + 1)..(Len(s) + 1) :
                        /\ \A k \in (first + 1)..(j - 1) : IsSentenceEnd(s[k])
                        /\ (j = Len(s) + 1 \/ ~IsSentenceEnd(s[j]))
         IN <<SubSeq(s, 1, first - 1)>> \o SplitSentences(SubSeq(s, rest, Len(s)))

BestPracticeLabel == <<"b", "e", "s", "t", " ", "p", "r", "a", "c", "t", "i", "c", "e">>

ObligationWords ==
  { <<"s", "h", "o", "u", "l", "d">>, <<"m", "u", "s", "t">>,
    <<"r", "e", "c", "o", "m", "m", "e", "n", "d", "e", "d">> }

\* the fragments one document adds to the bestPractices set
PracticesOf(doc) ==
  LET content == toLowerCase(doc.content)
  IN IF Includes(doc.section, BestPracticeLabel) \/ Includes(content, BestPracticeLabel)
       THEN MapSeq(SelectSeq(SplitSentences(content),
                             LAMBDA sentence : \E w \in ObligationWords : Includes(sentence, w)),
                   LAMBDA sentence : Slice(Trim(sentence), 0, 100))
       ELSE <<>>

\* Array.from(new Set(...)): the first occurrence of each value, in order
Distinct(items) ==
  LET kept == SelectSeq([i \in DOMAIN items |-> i],
                        LAMBDA i : \A j \in 1..(i - 1) : items[j] # items[i])
  IN [k \in DOMAIN kept |-> items[kept[k]]]

\* extractRulePatterns(documents).bestPractices ; the other three pattern
\* sets of the method are not read by buildRuleComplianceContext
extractBestPractices(documents) ==
  Slice(Distinct(Flatten([i \in DOMAIN documents |-> PracticesOf(documents[i])])), 0, 5)

DefRulePattern == <<"d", "e", "f", " ", "r", "u", "l", "e", "(">>

EventGetPattern == <<"e", "v", "e", "n", "t", ".", "g", "e", "t", "(">>

DeepGetPattern == <<"d", "e", "e", "p", "_", "g", "e", "t", "(">>

ReturnTruePattern == <<"r", "e", "t", "u", "r", "n", " ", "t", "r", "u", "e">>

ReturnFalsePattern == <<"r", "e", "t", "u", "r", "n", " ", "f", "a", "l", "s", "e">>

MissingRulePenalty == 30

MissingAccessPenalty == 15

MissingReturnPenalty == 20

\* Deduct that adds the penalty
DeductAdds(acc, missing, requirement, penalty) ==
  IF missing
    THEN [missingRequirements |-> Append(acc.missingRequirements, requirement),
          complianceScore |-> acc.complianceScore + penalty]
    ELSE acc

\* Deduct that records no requirement
DeductSilently(acc, missing, requirement, penalty) ==
  IF missing
    THEN [acc EXCEPT !.complianceScore = acc.complianceScore - penalty]
    ELSE acc

\* if (!...) { missingRequirements.push(requirement); complianceScore -= penalty }
Deduct(acc, missing, requirement, penalty) ==
  IF missing
    THEN [missingRequirements |-> Append(acc.missingRequirements, requirement),
          complianceScore |-> acc.complianceScore - penalty]
    ELSE acc

buildRuleComplianceContext(code, documents) ==
  LET bestPractices == extractBestPractices(documents)
      codeLines == toLowerCase(code)
      start == [missingRequirements |-> <<>>, complianceScore |-> 100]
      afterRule == Deduct(start, ~Includes(codeLines, DefRulePattern),
                          "rule(event) function is missing", MissingRulePenalty)
      afterAccess == Deduct(afterRule,
                            ~Includes(codeLines, EventGetPattern)
                              /\ ~Includes(codeLines, DeepGetPattern),
                            "safe event data access is needed", MissingAccessPenalty)
      afterReturn == Deduct(afterAccess,
                            ~Includes(codeLines, ReturnTruePattern)
                              /\ ~Includes(codeLines, ReturnFalsePattern),
                            "explicit Boolean return is needed", MissingReturnPenalty)
  IN [missingRequirements |-> afterReturn.missingRequirements,
      complianceScore |-> Max(0, afterReturn.complianceScore),
      suggestions |-> MapSeq(bestPractices, LAMBDA practice : <<"best practice: ">> \o practice)]

(***************************************************************************)
(* The validate-rag route's use of the results                             *)
(***************************************************************************)
\* ragContext.relevantDocuments.map(doc => ({..., relevanceScore:
\* doc.similarity, content: doc.content.slice(0, 500), ...}))
ToDocumentReference(doc) ==
  [id |-> doc.id, title |-> doc.title, section |-> doc.section,
   relevanceScore |-> doc.similarity, content |-> Slice(doc.content, 0, 500),
   documentType |-> doc.documentType]

\* DocumentReferenceSchema: relevanceScore: z.number().min(0).max(1)
DocumentReferenceSchemaAccepts(ref) ==
  ref.relevanceScore >= 0 /\ ref.relevanceScore <= Unit

(***************************************************************************)
(* Properties of the searches                                              *)
(***************************************************************************)
IsDocumentSearch ==
  call.op \in {"searchPantherRules", "searchRelevantRules", "searchByPantherFunctions"}

Rows == ret.rows

NonIncreasing(rows) ==
  \A i, j \in DOMAIN rows : i < j => rows[i].similarity >= rows[j].similarity

\* C1: the relevantDocuments of a context returned by buildEnhancedContext
\* hold no two entries with the same document id, whatever the weighted and
\* the keyword-gated search returned
Thm_C1_NoDuplicateDocuments ==
  (call.op = "buildEnhancedContext" /\ ret.status = "ok") =>
    \A i, j \in DOMAIN ret.context.relevantDocuments :
      i # j => ret.context.relevantDocuments[i].id # ret.context.relevantDocuments[j].id

\* a context was returned after both searches had returned the same document
Wit_C1_SameDocumentFromBothSearches ==
  /\ call.op = "buildEnhancedContext"
  /\ ret.status = "ok"
  /\ \E i \in DOMAIN bec.pantherRules.rows, j \in DOMAIN bec.functionDocs.rows :
       bec.pantherRules.rows[i].id = bec.functionDocs.rows[j].id
  /\ Len(ret.context.relevantDocuments) >= 2

\* C2: searchRelevantRules, when its embedding call and query do not fail,
\* returns at most topK rows, each with similarity >= minSimilarity, and
\* returns the empty list (not an error) when no stored document reaches
\* the threshold
Thm_C2_AtMostTopKAboveThreshold ==
  (call.op = "searchRelevantRules" /\ ~call.fails) =>
    /\ ret.status = "ok"
    /\ Len(Rows) <= call.topK
    /\ \A i \in DOMAIN Rows : Rows[i].similarity >= call.minSimilarity
    /\ (~\E k \in DOMAIN docs :
           docs[k].embedded /\ Unit - docs[k].distance >= call.minSimilarity)
         => ret = Returned(<<>>)

\* the limit cut a longer list of documents above a positive threshold, while
\* a stored document below the threshold was left out
Wit_C2_LimitAndThresholdApplied ==
  /\ call.op = "searchRelevantRules"
  /\ ret.status = "ok"
  /\ call.minSimilarity > 0
  /\ Len(Rows) = call.topK
  /\ Cardinality({k \in DOMAIN docs :
                    docs[k].embedded /\ Unit - docs[k].distance > call.minSimilarity})
       > call.topK

\* C3: the score searchPantherRules returns for a document is never below
\* that document's raw cosine similarity to the query
Thm_C3_WeightedNotBelowRaw ==
  (call.op = "searchPantherRules" /\ ret.status = "ok") =>
    \A i \in DOMAIN Rows : Rows[i].similarity >= Unit - DocById(Rows[i].id).distance

\* a result holds a document whose score was raised and one whose score is
\* the raw similarity
Wit_C3_RaisedAndUnraisedScore ==
  /\ call.op = "searchPantherRules"
  /\ ret.status = "ok"
  /\ \E i, j \in DOMAIN Rows :
       /\ Rows[i].similarity > Unit - DocById(Rows[i].id).distance
       /\ Rows[j].similarity = Unit - DocById(Rows[j].id).distance

\* the collection of the scenario: one document of an authoritative rule
\* section and type rule at similarity 0.72, one unlabeled document at 0.75
IsAuthoritativeAt72(d) ==
  /\ d.section = PantherRuleLabel /\ d.documentType = "rule"
  /\ d.embedded /\ d.distance = 2800

IsUnlabeledAt75(d) ==
  /\ d.section = <<>> /\ d.documentType # "rule"
  /\ d.embedded /\ d.distance = 2500

IsScenarioCollection ==
  /\ Len(docs) = 2
  /\ \E a, u \in DOMAIN docs : IsAuthoritativeAt72(docs[a]) /\ IsUnlabeledAt75(docs[u])

AuthoritativeId == docs[CHOOSE a \in DOMAIN docs : IsAuthoritativeAt72(docs[a])].id

UnlabeledId == docs[CHOOSE u \in DOMAIN docs : IsUnlabeledAt75(docs[u])].id

\* C6 as stated: the results are in non-increasing order of weighted score,
\* and on the scenario's collection the search returns the authoritative
\* document, with score 0.936, ranked above the unlabeled one
Orig_C6_AuthoritativeRankedFirst ==
  (call.op = "searchPantherRules" /\ ret.status = "ok") =>
    /\ NonIncreasing(Rows)
    /\ IsScenarioCollection =>
         /\ Len(Rows) >= 1
         /\ Rows[1].id = AuthoritativeId
         /\ Rows[1].similarity = 9360

\* C6 as amended: the results are in non-increasing order of weighted score;
\* on the scenario's collection, when minSimilarity is below 0.72 the
\* authoritative document comes first with score 0.936 and, if topK >= 2, the
\* unlabeled one second with 0.75; when minSimilarity is 0.75 or more (the
\* default, and what buildEnhancedContext passes) neither is returned,
\* because the threshold is applied to the raw similarity
Thm_C6_OrderedByWeightedScore ==
  (call.op = "searchPantherRules" /\ ret.status = "ok") =>
    /\ NonIncreasing(Rows)
    /\ IsScenarioCollection =>
         /\ call.minSimilarity < 7200 =>
              /\ Rows[1].id = AuthoritativeId
              /\ Rows[1].similarity = 9360
              /\ call.topK >= 2 =>
                   /\ Len(Rows) = 2
                   /\ Rows[2].id = UnlabeledId
                   /\ Rows[2].similarity = 7500
              /\ call.topK = 1 => Len(Rows) = 1
         /\ call.minSimilarity >= 7500 => Rows = <<>>

\* the scenario's search returned both documents, the authoritative one
\* first although its raw similarity is the lower one
Wit_C6_ScenarioBothReturned ==
  /\ call.op = "searchPantherRules"
  /\ ret.status = "ok"
  /\ IsScenarioCollection
  /\ Len(Rows) = 2
  /\ Rows[1].id = AuthoritativeId
  /\ Rows[1].similarity = 9360
  /\ Rows[2].similarity = 7500

\* the multiplier, in tenths, that C7 gives for a section and a type
ClaimedMultiplier(section, documentType) ==
  LET ruleLabel  == \E i \in 0..(Len(section) - Len(PantherRuleLabel)) :
                      toLowerCase(SubSeq(section, i + 1, i + Len(PantherRuleLabel)))
                        = toLowerCase(PantherRuleLabel)
      guideLabel == \E i \in 0..(Len(section) - Len(WritingDetectionsLabel)) :
                      toLowerCase(SubSeq(section, i + 1, i + Len(WritingDetectionsLabel)))
                        = toLowerCase(WritingDetectionsLabel)
  IN IF ruleLabel /\ documentType = "rule" THEN 13
     ELSE IF guideLabel THEN 12
     ELSE IF documentType = "rule" THEN 11
     ELSE 10

\* C7: the score searchPantherRules returns is the raw similarity times a
\* multiplier fixed by (section, type) alone: 1.3 for a rule-label section
\* with type rule, else 1.2 for a guide-label section, else 1.1 for type
\* rule, else 1.0; and the rows are ordered by that same product
Thm_C7_MultiplierBySectionAndType ==
  (call.op = "searchPantherRules" /\ ret.status = "ok") =>
    /\ \A i \in DOMAIN Rows :
         Rows[i].similarity * 10 =
           (Unit - DocById(Rows[i].id).distance)
             * ClaimedMultiplier(Rows[i].section, Rows[i].documentType)
    /\ \A k \in DOMAIN docs :
         pantherOrderKey(docs[k]) * 10 =
           (Unit - docs[k].distance)
             * ClaimedMultiplier(docs[k].section, docs[k].documentType)

\* a result holds a rule-label document of type rule (1.3) and a rule-label
\* document of another type (1.0)
Wit_C7_SameLabelDifferentType ==
  /\ call.op = "searchPantherRules"
  /\ ret.status = "ok"
  /\ \E i, j \in DOMAIN Rows :
       /\ Rows[i].section = PantherRuleLabel /\ Rows[i].documentType = "rule"
       /\ Rows[i].similarity * 10 = (Unit - DocById(Rows[i].id).distance) * 13
       /\ Rows[j].section = PantherRuleLabel /\ Rows[j].documentType # "rule"
       /\ Rows[j].similarity = Unit - DocById(Rows[j].id).distance

\* C8 as stated: every SearchResult of a document search has a similarity in
\* [0,1], so the document reference built from it passes the result schema
Orig_C8_SimilarityWithinUnitRange ==
  (IsDocumentSearch /\ ret.status = "ok") =>
    \A i \in DOMAIN Rows :
      /\ Rows[i].similarity >= 0
      /\ Rows[i].similarity <= Unit
      /\ DocumentReferenceSchemaAccepts(ToDocumentReference(Rows[i]))

\* a buildEnhancedContext call has settled
BecSettled == call.op = "buildEnhancedContext" /\ bec.phase = "settled"

\* C11 as stated: whenever one of the three searches of buildEnhancedContext
\* has failed, buildEnhancedContext fails and returns no context
Orig_C11_AnyFailureAborts ==
  (BecSettled /\ bec.failed # {}) => ret = Thrown

\* C11 as amended: buildEnhancedContext fails, returning no context, whenever
\* the weighted search or the example search has failed, whatever the others
\* did; a failure of the keyword-gated search alone does not fail it: that
\* search then counts as having returned no documents and the context is
\* built from the other two
Thm_C11_PrimaryFailureAborts ==
  BecSettled =>
    /\ (bec.failed \cap {"pantherRules", "similarExamples"} # {}) => ret = Thrown
    /\ (bec.failed \subseteq {"functionDocs"}) =>
         /\ ret.status = "ok"
         /\ "functionDocs" \in bec.failed =>
              /\ ret.context.relevantDocuments = MergeDocuments(bec.pantherRules.rows, <<>>)
              /\ ret.context.similarExamples = bec.similarExamples.rows

\* the example search failed after the two document searches had returned
\* documents, and buildEnhancedContext failed
Wit_C11_FailedAfterOthersReturned ==
  /\ BecSettled
  /\ bec.failed = {"similarExamples"}
  /\ bec.pantherRules.status = "ok" /\ bec.pantherRules.rows # <<>>
  /\ bec.functionDocs.status = "ok" /\ bec.functionDocs.rows # <<>>
  /\ ret = Thrown

\* the keyword results whose id is not among the weighted results
UnseenKeywordRows ==
  SelectSeq(bec.functionDocs.rows,
            LAMBDA d : \A i \in DOMAIN bec.pantherRules.rows : bec.pantherRules.rows[i].id # d.id)

\* C18: the relevantDocuments of a returned context are the weighted results
\* in the order the search returned them, followed by the keyword results
\* whose ids are not among them, in their returned order, cut to five
\* entries; this holds in whatever order the three searches completed
Thm_C18_WeightedThenUnseenKeyword ==
  (call.op = "buildEnhancedContext" /\ ret.status = "ok") =>
    LET all == bec.pantherRules.rows \o UnseenKeywordRows
    IN ret.context.relevantDocuments = SubSeq(all, 1, Min(5, Len(all)))

\* a context was returned although the keyword search completed before the
\* weighted one; one keyword row was appended and another was already seen
Wit_C18_KeywordSearchCompletedFirst ==
  /\ call.op = "buildEnhancedContext"
  /\ ret.status = "ok"
  /\ \E i, j \in DOMAIN bec.order :
       i < j /\ bec.order[i] = "functionDocs" /\ bec.order[j] = "pantherRules"
  /\ bec.pantherRules.rows # <<>>
  /\ UnseenKeywordRows # <<>>
  /\ Len(UnseenKeywordRows) < Len(bec.functionDocs.rows)

\* C19 as stated: of two documents that searchPantherRules returns with equal
\* weighted scores, the one with the higher raw similarity comes first and,
\* the raw similarities being equal too, the one inserted earlier (the lower
\* id), so that the order of the result is fully determined
Orig_C19_TiesByRawSimilarityThenInsertion ==
  (call.op = "searchPantherRules" /\ ret.status = "ok") =>
    \A i, j \in DOMAIN Rows :
      (i < j /\ Rows[i].similarity = Rows[j].similarity) =>
        \/ Similarity(DocById(Rows[i].id)) > Similarity(DocById(Rows[j].id))
        \/ /\ Similarity(DocById(Rows[i].id)) = Similarity(DocById(Rows[j].id))
           /\ Rows[i].id < Rows[j].id

\* C20 as stated: every row searchByPantherFunctions returns contains one of
\* the nine keywords and has raw similarity above 0.5; there are at most topK
\* rows, in non-increasing order of raw similarity, and the similarity of a
\* row is the raw one
Orig_C20_KeywordGatedRawRanking ==
  (call.op = "searchByPantherFunctions" /\ ret.status = "ok") =>
    /\ Len(Rows) <= call.topK
    /\ NonIncreasing(Rows)
    /\ \A i \in DOMAIN Rows :
         /\ \E k \in PantherRuleKeywords : Includes(toLowerCase(Rows[i].content), k)
         /\ Rows[i].similarity > 5000
         /\ Rows[i].similarity = Unit - DocById(Rows[i].id).distance

\* C12: searchByPantherFunctions and searchByCategory never end in a failure;
\* when the embedding call or the query fails they return the empty list
Thm_C12_SupplementarySearchesAbsorb ==
  (call.op \in {"searchByPantherFunctions", "searchByCategory"}) =>
    /\ ret.status = "ok"
    /\ call.fails => ret = Returned(<<>>)

\* the query of searchByCategory failed for a category that stored documents
\* carry, and the empty list was returned
Wit_C12_CategoryFailureAbsorbed ==
  /\ call.op = "searchByCategory"
  /\ call.fails
  /\ \E k \in DOMAIN docs : docs[k].category = call.category
  /\ ret = Returned(<<>>)

\* C13: when the embedding call or the query of searchRelevantRules fails, the
\* call ends in a failure delivered to the caller and returns no list, empty
\* or not
Thm_C13_RelevantRulesFailurePropagates ==
  (call.op = "searchRelevantRules" /\ call.fails) =>
    ret = Thrown /\ ret.status # "ok"

\* searchRelevantRules failed although a stored document is above the
\* threshold of the call
Wit_C13_FailureWithMatchingDocument ==
  /\ call.op = "searchRelevantRules"
  /\ call.fails
  /\ \E k \in DOMAIN docs : WithinDistance(docs[k], Unit - call.minSimilarity)
  /\ ret = Thrown

\* C14 as stated, for getSearchStats over a store that holds documents: when
\* a storage query fails, the call ends in a failure and returns no
\* statistics value
Orig_C14_StatsFailurePropagates ==
  (call.op = "getSearchStats" /\ call.fails /\ docs # <<>>) => ret = Thrown

(***************************************************************************)
(* Properties of the functions                                             *)
(***************************************************************************)
\* C4: the complianceScore of buildRuleComplianceContext is an integer in
\* 0..100 for every code text, the empty one included, and every document list
Thm_C4_ScoreWithinRange ==
  pc = "estimated" => output.complianceScore \in 0..100

\* the heuristic has scored the empty code text
Wit_C4_EmptyCodeScored ==
  /\ pc = "estimated"
  /\ input.code = <<>>
  /\ output.complianceScore < 100

\* text contains the lower-case pattern, letter case of text ignored
ContainsIgnoringCase(text, pattern) ==
  \E i \in 0..(Len(text) - Len(pattern)) :
    \A j \in 1..Len(pattern) : LowerChar(text[i + j]) = pattern[j]

LacksRuleFunction(code) == ~ContainsIgnoringCase(code, DefRulePattern)

LacksSafeAccess(code) ==
  ~ContainsIgnoringCase(code, EventGetPattern) /\ ~ContainsIgnoringCase(code, DeepGetPattern)

LacksBooleanReturn(code) ==
  ~ContainsIgnoringCase(code, ReturnTruePattern) /\ ~ContainsIgnoringCase(code, ReturnFalsePattern)

\* C5: the score is 100 less 30 without a rule function definition, less 15
\* without a safe field access call, less 20 without an explicit boolean
\* return; missingRequirements has one entry per failed check, in that order,
\* and nothing else; code failing all three scores 35 with three entries;
\* the documents passed make no difference
Thm_C5_PenaltiesPerFailedCheck ==
  pc = "estimated" =>
    LET code == input.code
        failed == (IF LacksRuleFunction(code) THEN <<"rule(event) function is missing">> ELSE <<>>)
                    \o (IF LacksSafeAccess(code) THEN <<"safe event data access is needed">> ELSE <<>>)
                    \o (IF LacksBooleanReturn(code) THEN <<"explicit Boolean return is needed">> ELSE <<>>)
    IN /\ output.complianceScore =
            100 - (IF LacksRuleFunction(code) THEN 30 ELSE 0)
                - (IF LacksSafeAccess(code) THEN 15 ELSE 0)
                - (IF LacksBooleanReturn(code) THEN 20 ELSE 0)
       /\ output.missingRequirements = failed
       /\ (LacksRuleFunction(code) /\ LacksSafeAccess(code) /\ LacksBooleanReturn(code))
            => output.complianceScore = 35 /\ Len(output.missingRequirements) = 3

\* a non-empty code text failing all three checks was scored 35 with three
\* entries, with a document passed that yields suggestions
Wit_C5_AllThreeChecksFail ==
  /\ pc = "estimated"
  /\ input.code # <<>>
  /\ input.documents # <<>>
  /\ output.suggestions # <<>>
  /\ output.complianceScore = 35
  /\ Len(output.missingRequirements) = 3

\* the budget of the section the prompt places a document in
BudgetOf(doc) ==
  IF pc = "generic" THEN GenericBudget
  ELSE IF IsOfficialRule(doc) THEN OfficialBudget
  ELSE OtherBudget

\* the piece of the template that follows a document's content / a code
AfterContent == "\n\n"

AfterCode == "\n[fence]\n\n"

\* from the place where text starts in the prompt, the prompt holds text
\* whole and then the closing piece if text is no longer than budget, and
\* else exactly its first budget characters, the marker, the closing piece
QuotedWithinBudget(prompt, text, budget, marker, closing) ==
  LET start == CHOOSE i \in DOMAIN prompt : prompt[i] = text[1]
      kept  == Min(Len(text), budget)
  IN /\ Cardinality({i \in DOMAIN prompt : prompt[i] = text[1]}) = 1
     /\ \A j \in 1..kept : prompt[start + j - 1] = text[j]
     /\ IF Len(text) > budget
          THEN /\ SubSeq(prompt, start + kept, start + kept + Len(marker) - 1) = marker
               /\ prompt[start + kept + Len(marker)] = closing
          ELSE prompt[start + kept] = closing

\* C9: in the assembled prompt a document content longer than the budget N of
\* its section, or an example code longer than its budget, appears as exactly
\* its first N characters followed at once by the truncation marker (N plus the
\* marker length in all); a content no longer than N appears whole, unmarked
Thm_C9_TruncationLaw ==
  pc \in {"panther", "generic"} =>
    /\ \A k \in DOMAIN input.documents :
         QuotedWithinBudget(output, input.documents[k].content,
                            BudgetOf(input.documents[k]), Dots, AfterContent)
    /\ \A k \in DOMAIN input.examples :
         QuotedWithinBudget(output, input.examples[k].codeContent,
                            ExampleBudget, TruncatedComment, AfterCode)

\* the Panther prompt was built from an official document over its budget, a
\* further document exactly at its budget and an example over its budget
Wit_C9_CutAndUncutContent ==
  /\ pc = "panther"
  /\ \E k \in DOMAIN input.documents :
       IsOfficialRule(input.documents[k]) /\ Len(input.documents[k].content) > OfficialBudget
  /\ \E k \in DOMAIN input.documents :
       ~IsOfficialRule(input.documents[k]) /\ Len(input.documents[k].content) = OtherBudget
  /\ \E k \in DOMAIN input.examples : Len(input.examples[k].codeContent) > ExampleBudget
  /\ Len(output) > OfficialBudget + OtherBudget + ExampleBudget

\* C10 as stated: preprocessText applied to its own result returns that
\* result, also for texts longer than the maximum length
Orig_C10_PreprocessIdempotent ==
  pc = "twice" => output[2] = output[1]

(***************************************************************************)
(* Specifications of the engine                                            *)
(***************************************************************************)
InitEngine(collections) ==
  /\ \E c \in collections : docs = c[1] /\ exs = c[2]
  /\ call = NoCall
  /\ ret = NoRet
  /\ bec = BecIdle
  /\ pc = "engine"
  /\ input = <<>>
  /\ output = <<>>

\* a search reads one table: the collections with the other table empty
Init ==
  InitEngine((DocCollections \X {<<>>}) \cup ({<<>>} \X ExampleCollections))

\* the four searches, each called on its own
Next ==
  \/ \E k \in TopKs, m \in MinSimilarities, f \in BOOLEAN : searchPantherRules(k, m, f)
  \/ \E k \in TopKs, m \in MinSimilarities, f \in BOOLEAN : searchRelevantRules(k, m, f)
  \/ \E k \in TopKs, m \in MinSimilarities, f \in BOOLEAN : searchSimilarExamples(k, m, f)
  \/ \E k \in TopKs, f \in BOOLEAN : searchByPantherFunctions(k, f)
  \/ \E c \in Categories, k \in TopKs, f \in BOOLEAN : searchByCategory(c, k, f)
  \/ \E f \in BOOLEAN : getSearchStats(f)
  \/ Forget

Spec == Init /\ [][Next]_vars

\* buildEnhancedContext and its three concurrent searches
NextContext ==
  \/ BecStart
  \/ \E f \in BOOLEAN : BecPantherRules(f)
  \/ \E f \in BOOLEAN : BecFunctionDocs(f)
  \/ \E f \in BOOLEAN : BecSimilarExamples(f)
  \/ BecResolve
  \/ BecReject
  \/ Forget

\* the stored documents of the buildEnhancedContext runs: its thresholds, 0.75
\* and 0.5, treat similarity 0.72 as they treat 0.75, so 0.72 is left out
ContextDocCollections ==
  UNION { { [i \in 1..n |-> MakeDoc(i, f[i])] :
              f \in [1..n -> {c \in DocChoices : c.distance # 2800}] } :
            n \in 0..MaxDocs }

InitContext == InitEngine(ContextDocCollections \X ExampleCollections)

SpecContext == InitContext /\ [][NextContext]_vars

(***************************************************************************)
(* Function-level specifications: the inputs are drawn by the initial      *)
(* predicate and the function under study is applied to them.              *)
(***************************************************************************)
EngineUnused ==
  /\ docs = <<>>
  /\ exs = <<>>
  /\ call = NoCall
  /\ ret = NoRet
  /\ bec = BecIdle

\* ---- preprocessText: texts around MaxInputLength ----
TextAlphabet == {"a", " ", "\n", "\t"}

MaxTail == 3

Pad(n) == [i \in 1..n |-> "a"]

Texts ==
  { Pad(n) \o tl :
      n \in {0, MaxInputLength - 2, MaxInputLength - 1, MaxInputLength},
      tl \in UNION {[1..k -> TextAlphabet] : k \in 0..MaxTail} }

InitPreprocess ==
  /\ EngineUnused
  /\ pc = "start"
  /\ input \in Texts
  /\ output = <<>>

\* a text is preprocessed before it is embedded and stored
Preprocess ==
  /\ pc = "start"
  /\ output' = <<preprocessText(input)>>
  /\ pc' = "once"
  /\ UNCHANGED <<docs, exs, call, ret, bec, input>>

\* the stored text is preprocessed again when the row is updated
PreprocessAgain ==
  /\ pc = "once"
  /\ output' = Append(output, preprocessText(output[1]))
  /\ pc' = "twice"
  /\ UNCHANGED <<docs, exs, call, ret, bec, input>>

NextPreprocess == Preprocess \/ PreprocessAgain

SpecPreprocess == InitPreprocess /\ [][NextPreprocess]_vars

\* ---- buildRuleComplianceContext: code texts made of fragments ----
CodeFragments ==
  { <<"d", "e", "f", " ", "r", "u", "l", "e", "(">>,
    <<"D", "E", "F", " ", "R", "u", "l", "e", "(">>,
    <<"d", "e", "f", " ">>,
    <<"r", "u", "l", "e", "(">>,
    <<"e", "v", "e", "n", "t", ".", "g", "e", "t", "(">>,
    <<"D", "e", "e", "p", "_", "G", "e", "t", "(">>,
    <<"r", "e", "t", "u", "r", "n", " ", "T", "r", "u", "e">>,
    <<"r", "e", "t", "u", "r", "n", " ">>,
    <<"f", "a", "l", "s", "e">>,
    <<"\n">> }

MaxCodeFragments == 3

CodeTexts ==
  { Flatten(fs) : fs \in UNION {[1..k -> CodeFragments] : k \in 0..MaxCodeFragments} }

PracticeDocument(section, content) ==
  [id |-> 1, title |-> <<"D", "1">>, section |-> section, documentType |-> "best-practice",
   similarity |-> 8000, content |-> content]

ComplianceDocuments ==
  { <<>>,
    << PracticeDocument(<<>>, <<"B", "e", "s", "t", " ", "p", "r", "a", "c", "t", "i", "c", "e", ".", " ", "Y", "o", "u", " ", "m", "u", "s", "t", " ", "r", "e", "t", "u", "r", "n", "!", "?", " ", "o", "k", ".", "m", "u", "s", "t", " ", "r", "e", "t", "u", "r", "n", ".">>) >>,
    << PracticeDocument(BestPracticeLabel, <<"m", "u", "s", "t", " ", "1", ".", "m", "u", "s", "t", " ", "2", ".", "m", "u", "s", "t", " ", "3", ".", "m", "u", "s", "t", " ", "4", ".", "m", "u", "s", "t", " ", "5", ".", "m", "u", "s", "t", " ", "6">>) >>,
    << PracticeDocument(<<>>, <<"y", "o", "u", " ", "s", "h", "o", "u", "l", "d", ".">>) >> }

InitCompliance ==
  /\ EngineUnused
  /\ pc = "start"
  /\ input \in [code : CodeTexts, documents : ComplianceDocuments]
  /\ output = <<>>

EstimateCompliance ==
  /\ pc = "start"
  /\ output' = buildRuleComplianceContext(input.code, input.documents)
  /\ pc' = "estimated"
  /\ UNCHANGED <<docs, exs, call, ret, bec, input>>

NextCompliance == EstimateCompliance

SpecCompliance == InitCompliance /\ [][NextCompliance]_vars

\* ---- buildPromptWithRAG: contents around the budgets ----
\* lengths around the budget of the official section, and around those of
\* the further documents and of the generic prompt
OfficialLengths == {1, OfficialBudget, OfficialBudget + 1}

OtherLengths == {OtherBudget, OtherBudget + 1, GenericBudget, GenericBudget + 1}

CodeLengths == {1, ExampleBudget, ExampleBudget + 1}

BodyAlphabet == <<"a", "b", "c">>

\* a text of n characters: a first character of its own, then a, b, c in turn
TaggedText(tag, n) ==
  [i \in 1..n |-> IF i = 1 THEN tag ELSE BodyAlphabet[(i % 3) + 1]]

DocTags == <<"@", "&", "$", "~">>

CodeTags == <<"^", "+", "=", "|">>

MaxPromptDocs == 2

MaxPromptExamples == 1

\* a document of the official section and one of the further documents
PromptDocChoices ==
  [kind : {k \in DocKinds : k.section = PantherRuleLabel /\ k.documentType = "rule"},
   length : OfficialLengths]
    \cup [kind : {k \in DocKinds : k.section = <<>> /\ k.documentType # "rule"},
          length : OtherLengths]

PromptDocument(i, c) ==
  [id |-> i, title |-> <<"D", ToString(i)>>, section |-> c.kind.section,
   documentType |-> c.kind.documentType, similarity |-> 8000,
   content |-> TaggedText(DocTags[i], c.length)]

PromptExample(i, n) ==
  [id |-> i, title |-> <<"E", ToString(i)>>, codeContent |-> TaggedText(CodeTags[i], n),
   qualityScore |-> 90, category |-> <<"a", "w", "s">>, description |-> <<>>,
   similarity |-> 7000]

PromptDocuments ==
  UNION { { [i \in 1..n |-> PromptDocument(i, f[i])] : f \in [1..n -> PromptDocChoices] } :
            n \in 0..MaxPromptDocs }

PromptExamples ==
  UNION { { [i \in 1..n |-> PromptExample(i, f[i])] : f \in [1..n -> CodeLengths] } :
            n \in 0..MaxPromptExamples }

InitPrompt ==
  /\ EngineUnused
  /\ pc = "start"
  /\ input \in [documents : PromptDocuments, examples : PromptExamples]
  /\ output = <<>>

BuildPrompt ==
  /\ pc = "start"
  /\ output' = buildPromptWithRAG(input.documents, input.examples)
  /\ pc' = "panther"
  /\ UNCHANGED <<docs, exs, call, ret, bec, input>>

BuildPromptGeneric ==
  /\ pc = "start"
  /\ output' = buildPromptWithRAGGeneric(input.documents, input.examples)
  /\ pc' = "generic"
  /\ UNCHANGED <<docs, exs, call, ret, bec, input>>

NextPrompt == BuildPrompt \/ BuildPromptGeneric

SpecPrompt == InitPrompt /\ [][NextPrompt]_vars

(***************************************************************************)
(* Embedding dimensions: the writers of the two embedding columns and the  *)
(* queries that compare a vector with them.  A vector is modelled by its   *)
(* length.  Here docs and exs hold rows [id, content, dims], input holds   *)
(* the dimension of the embedding columns and output the outcome of the    *)
(* last operation.                                                         *)
(***************************************************************************)
\* generateEmbedding: dimensions: 1024
EmbeddingDimensions == 1024

\* vector('embedding', { dimensions: 1024 })
SchemaDimensions == 1024

\* new Array(512).fill(0)
PadLength == 512

\* [...embedding, ...new Array(512).fill(0)]
paddedEmbedding(embedding) == embedding + PadLength

\* the columns as the schema declares them, or as the padding expects them
\* ("Pad 1024 dimensions to 1536 to match database expectation")
ColumnDimensions == {SchemaDimensions, paddedEmbedding(EmbeddingDimensions)}

Contents == {"a", "b"}

StoredRows(column, max) ==
  UNION { { [i \in 1..n |-> [id |-> i, content |-> f[i], dims |-> column]] :
              f \in [1..n -> Contents] } : n \in 0..max }

\* a typed vector column rejects a vector of another length
InsertAccepts(embedding) == embedding = input.column

\* the distance operator fails on two vectors of different lengths
CompareFails(queryEmbedding, rows) ==
  \E k \in DOMAIN rows : rows[k].dims # queryEmbedding

DimsOf(rows) == {rows[k].dims : k \in DOMAIN rows}

InitDimensions ==
  /\ call = NoCall
  /\ ret = NoRet
  /\ bec = BecIdle
  /\ pc = "store"
  /\ \E column \in ColumnDimensions :
       /\ input = [column |-> column]
       /\ docs \in StoredRows(column, MaxDocs)
       /\ exs \in StoredRows(column, MaxExamples)
  /\ output = [op |-> "none"]

\* DocumentProcessor.storeDocuments: each chunk is embedded, padded and
\* inserted; a chunk whose insert throws is logged and skipped
storeDocuments(chunks) ==
  /\ pc = "store"
  /\ Len(docs) + Len(chunks) <= MaxDocs
  /\ LET embedding == paddedEmbedding(EmbeddingDimensions)
         stored == IF InsertAccepts(embedding)
                     THEN [i \in DOMAIN chunks |->
                             [id |-> Len(docs) + i, content |-> chunks[i], dims |-> embedding]]
                     ELSE <<>>
     IN /\ docs' = docs \o stored
        /\ output' = [op |-> "storeDocuments", status |-> "ok", stored |-> Len(stored)]
  /\ UNCHANGED <<exs, call, ret, bec, pc, input>>

\* PUT of a document: a changed content is embedded anew, unpadded
putDocument(k, content) ==
  /\ pc = "store"
  /\ k \in DOMAIN docs
  /\ LET needsEmbeddingUpdate == docs[k].content # content
         embedding == IF needsEmbeddingUpdate THEN EmbeddingDimensions ELSE docs[k].dims
     IN IF InsertAccepts(embedding)
          THEN /\ docs' = [docs EXCEPT ![k] = [id |-> @.id, content |-> content, dims |-> embedding]]
               /\ output' = [op |-> "putDocument", status |-> "ok"]
          ELSE /\ docs' = docs
               /\ output' = [op |-> "putDocument", status |-> "error"]
  /\ UNCHANGED <<exs, call, ret, bec, pc, input>>

\* POST of an example: the code is embedded and padded
postExample(codeContent) ==
  /\ pc = "store"
  /\ Len(exs) < MaxExamples
  /\ LET embedding == paddedEmbedding(EmbeddingDimensions)
     IN IF InsertAccepts(embedding)
          THEN /\ exs' = Append(exs, [id |-> Len(exs) + 1, content |-> codeContent,
                                      dims |-> embedding])
               /\ output' = [op |-> "postExample", status |-> "ok"]
          ELSE /\ exs' = exs
               /\ output' = [op |-> "postExample", status |-> "error"]
  /\ UNCHANGED <<docs, call, ret, bec, pc, input>>

\* PUT of an example: a changed code is embedded anew and padded
putExample(k, codeContent) ==
  /\ pc = "store"
  /\ k \in DOMAIN exs
  /\ LET needsEmbeddingUpdate == exs[k].content # codeContent
         embedding == IF needsEmbeddingUpdate THEN paddedEmbedding(EmbeddingDimensions)
                                              ELSE exs[k].dims
     IN IF InsertAccepts(embedding)
          THEN /\ exs' = [exs EXCEPT ![k] = [id |-> @.id, content |-> codeContent, dims |-> embedding]]
               /\ output' = [op |-> "putExample", status |-> "ok"]
          ELSE /\ exs' = exs
               /\ output' = [op |-> "putExample", status |-> "error"]
  /\ UNCHANGED <<docs, call, ret, bec, pc, input>>

\* the document searches of the engine compare the unpadded query embedding
\* with the stored document embeddings
queryDocuments ==
  /\ pc = "store"
  /\ LET queryEmbedding == EmbeddingDimensions
     IN output' = [op |-> "queryDocuments", queryDims |-> queryEmbedding,
                   storedDims |-> DimsOf(docs),
                   status |-> IF CompareFails(queryEmbedding, docs) THEN "error" ELSE "ok"]
  /\ UNCHANGED <<docs, exs, call, ret, bec, pc, input>>

\* searchSimilarExamples compares the unpadded code embedding with the stored
\* example embeddings
queryExamples ==
  /\ pc = "store"
  /\ LET codeEmbedding == EmbeddingDimensions
     IN output' = [op |-> "queryExamples", queryDims |-> codeEmbedding,
                   storedDims |-> DimsOf(exs),
                   status |-> IF CompareFails(codeEmbedding, exs) THEN "error" ELSE "ok"]
  /\ UNCHANGED <<docs, exs, call, ret, bec, pc, input>>

\* the test-search route compares the padded query embedding with both tables
testSearch ==
  /\ pc = "store"
  /\ LET queryEmbedding == paddedEmbedding(EmbeddingDimensions)
     IN output' = [op |-> "testSearch", queryDims |-> queryEmbedding,
                   storedDims |-> DimsOf(docs) \cup DimsOf(exs),
                   status |-> IF CompareFails(queryEmbedding, docs)
                                   \/ CompareFails(queryEmbedding, exs)
                                THEN "error" ELSE "ok"]
  /\ UNCHANGED <<docs, exs, call, ret, bec, pc, input>>

NextDimensions ==
  \/ \E c \in Contents : storeDocuments(<<c>>)
  \/ \E c, d \in Contents : storeDocuments(<<c, d>>)
  \/ \E k \in 1..MaxDocs, c \in Contents : putDocument(k, c)
  \/ \E c \in Contents : postExample(c)
  \/ \E k \in 1..MaxExamples, c \in Contents : putExample(k, c)
  \/ queryDocuments
  \/ queryExamples
  \/ testSearch

SpecDimensions == InitDimensions /\ [][NextDimensions]_vars

\* C15 as stated: all stored embeddings have one length, and a query vector
\* compared with stored embeddings has that same length
Orig_C15_OneDimension ==
  pc = "store" =>
    /\ Cardinality(DimsOf(docs) \cup DimsOf(exs)) <= 1
    /\ (output.op \in {"queryDocuments", "queryExamples", "testSearch"}
          /\ output.storedDims # {})
         => output.storedDims = {output.queryDims}

(***************************************************************************)
(* The streaming validation routes (validate-rag, validate-structured).    *)
(* input is the parsed request, pc the position of the stream's start      *)
(* callback, output the events enqueued so far, the stage that failed, the *)
(* LLM answer and validated result of the request, and the three tables    *)
(* the routes write.                                                       *)
(***************************************************************************)
Progress(step) == [type |-> "progress", step |-> step]

\* the event of the catch block: the step is the literal 'analysis'
ErrorEvent == [type |-> "error", error |-> "message", step |-> "analysis"]

CompleteEvent(result) == [type |-> "complete", result |-> result]

\* the steps array of validate-rag and the one of validate-structured
RagSteps == <<"syntax", "rules", "quality", "analysis">>

StructuredSteps == <<"initializing", "syntax", "rules", "quality", "analysis">>

\* what invokeClaude and the extraction of JSON from its answer can come to:
\* the call throws, the answer is no JSON, or it is a JSON object with these
\* two scores and with or without all the required fields
LlmOutcomes ==
  { [kind |-> "throws"], [kind |-> "notJson"],
    [kind |-> "json", ruleScore |-> 150, qualityScore |-> 0 - 1, complete |-> TRUE],
    [kind |-> "json", ruleScore |-> 50, qualityScore |-> 95, complete |-> FALSE],
    [kind |-> "json", ruleScore |-> 100, qualityScore |-> 0, complete |-> TRUE] }

\* a result schema that accepts every object
ValidationResultSchemaAcceptsAll(result) == TRUE

\* ValidationResultSchema, and the same fields of EnhancedValidationResultSchema:
\* the required fields and z.number().min(0).max(100) for the two scores
ValidationResultSchemaAccepts(result) ==
  /\ result.complete
  /\ result.ruleScore >= 0 /\ result.ruleScore <= 100
  /\ result.qualityScore >= 0 /\ result.qualityScore <= 100

\* generateImprovements(result, example)
generateImprovements(result, example) ==
  LET improvements ==
        (IF result.ruleScore < example.qualityScore
           THEN <<"rule compliance needs improvement">> ELSE <<>>)
        \o (IF result.qualityScore < example.qualityScore
              THEN <<"code quality needs improvement">> ELSE <<>>)
        \o (IF example.category # <<>> THEN <<"see the category's best practices">> ELSE <<>>)
  IN IF Len(improvements) > 0 THEN improvements ELSE <<"see the overall structure">>

\* similarExamples: ragContext?.similarExamples.map(example => ({...}))
ToExampleReference(result, example) ==
  [id |-> example.id, title |-> example.title, similarity |-> example.similarity,
   qualityScore |-> example.qualityScore, category |-> example.category,
   improvements |-> generateImprovements(result, example),
   codeSnippet |-> Slice(example.codeContent, 0, 300)]

\* ExampleReferenceSchema: similarity 0..1, qualityScore 0..100
ExampleReferenceSchemaAccepts(ref) ==
  /\ ref.similarity >= 0 /\ ref.similarity <= Unit
  /\ ref.qualityScore >= 0 /\ ref.qualityScore <= 100

\* enhancedResult of validate-rag; context is the ragContext or <<>> for null
EnhancedResult(result, context, ragEnabled) ==
  [ruleScore |-> result.ruleScore, qualityScore |-> result.qualityScore,
   complete |-> result.complete,
   documentReferences |->
     IF context = <<>> THEN <<>>
     ELSE [i \in DOMAIN context.relevantDocuments |->
             ToDocumentReference(context.relevantDocuments[i])],
   similarExamples |->
     IF context = <<>> THEN <<>>
     ELSE [i \in DOMAIN context.similarExamples |->
             ToExampleReference(result, context.similarExamples[i])],
   ragMetadata |->
     [documentsFound |-> IF context = <<>> THEN 0 ELSE Len(context.relevantDocuments),
      examplesFound |-> IF context = <<>> THEN 0 ELSE Len(context.similarExamples),
      ragEnabled |-> ragEnabled]]

\* EnhancedValidationResultSchema.parse
EnhancedValidationResultSchemaAccepts(result) ==
  /\ ValidationResultSchemaAccepts(result)
  /\ \A i \in DOMAIN result.documentReferences :
       DocumentReferenceSchemaAccepts(result.documentReferences[i])
  /\ \A i \in DOMAIN result.similarExamples :
       ExampleReferenceSchemaAccepts(result.similarExamples[i])

\* the stage at which the LLM part of the try block fails, or "none":
\* invokeClaude, JSON.parse, the schema parse
FailingStage(llm, schemaAccepts) ==
  IF llm.kind = "throws" THEN "llm"
  ELSE IF llm.kind = "notJson" THEN "json"
  ELSE IF ~schemaAccepts THEN "schema"
  ELSE "none"

GoodCode == <<"d", "e", "f", " ", "r", "u", "l", "e", "(", "e", ")", ":", " ", "r", "e", "t", "u", "r", "n", " ", "T", "r", "u", "e">>

\* requests EnhancedCodeValidationRequestSchema accepts: maxDocuments 1..10
\* (default 5), maxExamples 1..5 (default 3)
RagRequests ==
  { [route |-> "validate-rag", code |-> m[1], ragEnabled |-> r, includeExamples |-> e,
     maxDocuments |-> m[2], maxExamples |-> m[3]] :
      r \in BOOLEAN, e \in BOOLEAN, m \in {<<<<"x">>, 1, 1>>, <<GoodCode, 5, 3>>} }

StructuredRequests ==
  { [route |-> "validate-structured", code |-> c] : c \in {<<"x">>, GoodCode} }

\* a document of the guide that states a practice and names an accessor
PracticeKind ==
  [section |-> <<"b", "e", "s", "t", " ", "p", "r", "a", "c", "t", "i", "c", "e">>,
   documentType |-> "best-practice", category |-> "none",
   content |-> <<"y", "o", "u", " ", "m", "u", "s", "t", " ", "u", "s", "e", " ",
                 "d", "e", "e", "p", "_", "g", "e", "t", ".">>]

\* the stored documents of the route runs: the rules, with and without the
\* label, at similarity 0.80, and the practice document at 0.72, where only
\* the keyword search finds it
RouteDocChoices ==
  {c \in DocChoices : c.embedded /\ c.distance = 2000 /\ c.kind.documentType = "rule"}
    \cup {[kind |-> PracticeKind, embedded |-> TRUE, distance |-> 2800]}

RouteDocCollections ==
  UNION { { [i \in 1..n |-> MakeDoc(i, f[i])] : f \in [1..n -> RouteDocChoices] } :
            n \in 0..MaxDocs }

NoResult == <<>>

\* validate-stream: the text the LLM streams is a list of pieces.  A marker
\* ==STEP_START:s== or ==STEP_END:s== is two pieces, so that a chunk can end
\* inside a marker; the JSON between the markers of a step is one piece.
MarkerPieces(kind, step) ==
  <<[t |-> kind, half |-> 1, step |-> step], [t |-> kind, half |-> 2, step |-> step]>>

StepPieces(step) ==
  MarkerPieces("start", step) \o <<[t |-> "body", half |-> 0, step |-> step]>>
    \o MarkerPieces("end", step)

\* the answer the prompt asks for, for the first n of the four steps
LlmText(steps) == Flatten([i \in DOMAIN steps |-> StepPieces(steps[i])])

StreamRequests ==
  { [route |-> "validate-stream", steps |-> SubSeq(RagSteps, 1, n), code |-> <<"x">>] :
      n \in 0..Len(RagSteps) }

\* a whole marker of the kind starts at piece i of the content
IsMarkerAt(content, i, kind) ==
  /\ i + 1 <= Len(content)
  /\ content[i].t = kind /\ content[i].half = 1
  /\ content[i + 1] = [content[i] EXCEPT !.half = 2]

\* content.match(/==STEP_START:(\w+)==/) and content.match(/==STEP_END:(\w+)==/):
\* the first whole marker of the kind, index 0 when there is none
FirstMarker(content, kind) ==
  LET at == {i \in DOMAIN content : IsMarkerAt(content, i, kind)}
  IN IF at = {} THEN [index |-> 0, type |-> ""]
     ELSE LET i == CHOOSE j \in at : \A k \in at : j <= k
          IN [index |-> i, type |-> content[i].step]

\* content.indexOf("==STEP_END:" + step + "=="), 0 when it does not occur
IndexOfEnd(content, step) ==
  LET at == {i \in DOMAIN content : IsMarkerAt(content, i, "end") /\ content[i].step = step}
  IN IF at = {} THEN 0 ELSE CHOOSE j \in at : \A k \in at : j <= k

\* the failures of bedrockClient.send and of the iteration of response.body
FailureKinds == {"throttled", "other"}

StepEvent(step, kind) == [type |-> "step", step |-> step, kind |-> kind]

StreamErrorEvent == [type |-> "error", error |-> "message", fallback |-> TRUE]

StreamCompleteEvent == [type |-> "complete"]

InitValidate ==
  /\ docs \in RouteDocCollections
  /\ exs \in ExampleCollections
  /\ call = NoCall
  /\ ret = NoRet
  /\ bec = BecIdle
  /\ pc = "request"
  /\ input \in RagRequests \cup StructuredRequests \cup StreamRequests
  /\ output = [events |-> <<>>, failedAt |-> "none", llm |-> [kind |-> "none"],
               result |-> NoResult, validations |-> <<>>, docRefs |-> <<>>,
               exampleRefs |-> <<>>, pos |-> 0, streamingContent |-> <<>>,
               currentStep |-> "", processedSteps |-> {}]

\* RouteFails that closes the stream without an error event
RouteFailsSilently(events, stage) ==
  /\ output' = [output EXCEPT !.events = events, !.failedAt = stage]
  /\ pc' = "closed"

\* the catch block of the stream's start callback and controller.close()
RouteFails(events, stage) ==
  /\ output' = [output EXCEPT !.events = events \o <<ErrorEvent>>, !.failedAt = stage]
  /\ pc' = "closed"

\* validate-rag up to the call of buildEnhancedContext
RagBegin ==
  /\ pc = "request"
  /\ input.route = "validate-rag"
  /\ output' = [output EXCEPT !.events = <<Progress("rag")>>]
  /\ IF input.ragEnabled
       THEN /\ call' = [op |-> "buildEnhancedContext"]
            /\ bec' = BecSearching
            /\ pc' = "rag"
       ELSE /\ UNCHANGED <<call, bec>>
            /\ pc' = "steps"
  /\ UNCHANGED <<docs, exs, ret, input>>

\* RagContextBuilt that gives buildRuleComplianceContext the weighted results
\* only
RagContextBuiltFromWeighted ==
  /\ pc = "rag"
  /\ bec.phase = "settled"
  /\ ret.status = "ok"
  /\ LET complianceContext ==
           buildRuleComplianceContext(input.code, bec.pantherRules.rows)
     IN /\ ret' = [ret EXCEPT !.context = @ @@ ("complianceContext" :> complianceContext)]
        /\ output' = [output EXCEPT !.events =
             @ \o <<Progress("documents")>>
               \o (IF input.includeExamples THEN <<Progress("examples")>> ELSE <<>>)
               \o (IF complianceContext.complianceScore < 70
                     THEN <<Progress("compliance")>> ELSE <<>>)]
  /\ pc' = "steps"
  /\ UNCHANGED <<docs, exs, call, bec, input>>

\* buildEnhancedContext returned: ragContext.complianceContext is set and the
\* progress events of the context are sent
RagContextBuilt ==
  /\ pc = "rag"
  /\ bec.phase = "settled"
  /\ ret.status = "ok"
  /\ LET complianceContext ==
           buildRuleComplianceContext(input.code, ret.context.relevantDocuments)
     IN /\ ret' = [ret EXCEPT !.context = @ @@ ("complianceContext" :> complianceContext)]
        /\ output' = [output EXCEPT !.events =
             @ \o <<Progress("documents")>>
               \o (IF input.includeExamples THEN <<Progress("examples")>> ELSE <<>>)
               \o (IF complianceContext.complianceScore < 70
                     THEN <<Progress("compliance")>> ELSE <<>>)]
  /\ pc' = "steps"
  /\ UNCHANGED <<docs, exs, call, bec, input>>

\* buildEnhancedContext threw: the catch block of the stream
RagContextFailed ==
  /\ pc = "rag"
  /\ bec.phase = "settled"
  /\ ret = Thrown
  /\ RouteFails(output.events, "rag")
  /\ UNCHANGED <<docs, exs, call, ret, bec, input>>

\* validate-rag from the steps loop to the schema parse of the enhanced result
RagAnalyse(llm) ==
  /\ pc = "steps"
  /\ LET context == IF input.ragEnabled THEN ret.context ELSE <<>>
         base == IF llm.kind = "json" THEN llm
                 ELSE [ruleScore |-> 0, qualityScore |-> 0, complete |-> FALSE]
         enhancedResult == EnhancedResult(base, context, input.ragEnabled)
         stage == FailingStage(llm, EnhancedValidationResultSchemaAccepts(enhancedResult))
         steps == [i \in DOMAIN RagSteps |-> Progress(RagSteps[i])]
     IN IF stage # "none"
          THEN /\ output' = [output EXCEPT !.events = @ \o steps \o <<ErrorEvent>>,
                                           !.failedAt = stage, !.llm = llm]
               /\ pc' = "closed"
          ELSE /\ output' = [output EXCEPT !.events = @ \o steps, !.llm = llm,
                                           !.result = enhancedResult]
               /\ pc' = "insertRecord"
  /\ UNCHANGED <<docs, exs, call, ret, bec, input>>

\* the row of code_validations written for a validated result
ValidationRecord(id, result) ==
  [id |-> id, ruleComplianceScore |-> result.ruleScore,
   codeQualityScore |-> result.qualityScore]

\* db.insert(schema.codeValidations).values({...}).returning()
RagInsertRecord(fails) ==
  /\ pc = "insertRecord"
  /\ IF fails
       THEN RouteFails(output.events, "insertRecord")
       ELSE /\ output' = [output EXCEPT !.validations =
                            Append(@, ValidationRecord(Len(@) + 1, output.result))]
            /\ pc' = "insertDocRefs"
  /\ UNCHANGED <<docs, exs, call, ret, bec, input>>

\* the validation this request wrote
savedRecord == output.validations[Len(output.validations)]

\* if (ragEnabled && documentReferences.length > 0)
\*   await db.insert(validationDocumentReferences).values(docRefs)
\* document_id references knowledge_documents.id: the insert fails when a
\* referenced document is no longer stored
RagInsertDocRefs(fails) ==
  /\ pc = "insertDocRefs"
  /\ LET refs == output.result.documentReferences
         docRefs == [i \in DOMAIN refs |->
                       [validationId |-> savedRecord.id, documentId |-> refs[i].id]]
         inserts == input.ragEnabled /\ Len(refs) > 0
         keyMissing == \E i \in DOMAIN refs : \A k \in DOMAIN docs : docs[k].id # refs[i].id
     IN IF inserts /\ (fails \/ keyMissing)
          THEN RouteFails(output.events, "insertDocRefs")
          ELSE /\ ~fails
               /\ output' = [output EXCEPT !.docRefs =
                               IF inserts THEN @ \o docRefs ELSE @]
               /\ pc' = "insertExampleRefs"
  /\ UNCHANGED <<docs, exs, call, ret, bec, input>>

\* if (ragEnabled && includeExamples && similarExamples.length > 0)
\*   await db.insert(validationExampleReferences).values(exampleRefs)
\* and then the complete event and controller.close()
RagInsertExampleRefs(fails) ==
  /\ pc = "insertExampleRefs"
  /\ LET refs == output.result.similarExamples
         exampleRefs == [i \in DOMAIN refs |->
                           [validationId |-> savedRecord.id, exampleId |-> refs[i].id]]
         inserts == input.ragEnabled /\ input.includeExamples /\ Len(refs) > 0
         keyMissing == \E i \in DOMAIN refs : \A k \in DOMAIN exs : exs[k].id # refs[i].id
     IN IF inserts /\ (fails \/ keyMissing)
          THEN RouteFails(output.events, "insertExampleRefs")
          ELSE /\ ~fails
               /\ output' = [output EXCEPT
                    !.exampleRefs = IF inserts THEN @ \o exampleRefs ELSE @,
                    !.events = Append(@, CompleteEvent(output.result))]
               /\ pc' = "closed"
  /\ UNCHANGED <<docs, exs, call, ret, bec, input>>

\* the rows of a table without the k-th
RemoveAt(rows, k) == [i \in 1..(Len(rows) - 1) |-> IF i < k THEN rows[i] ELSE rows[i + 1]]

\* DELETE /api/admin/documents/[id] by another request between the retrieval
\* and the insert of the reference rows (a deletion at any earlier point after
\* the searches leaves the same table); a document that a reference row
\* points to cannot be deleted
DeleteDocument(k) ==
  /\ pc = "insertDocRefs"
  /\ k \in DOMAIN docs
  /\ \A i \in DOMAIN output.docRefs : output.docRefs[i].documentId # docs[k].id
  /\ docs' = RemoveAt(docs, k)
  /\ UNCHANGED <<exs, call, ret, bec, pc, input, output>>

\* DELETE /api/admin/examples/[id] by another request, likewise
DeleteExample(k) ==
  /\ pc = "insertExampleRefs"
  /\ k \in DOMAIN exs
  /\ \A i \in DOMAIN output.exampleRefs : output.exampleRefs[i].exampleId # exs[k].id
  /\ exs' = RemoveAt(exs, k)
  /\ UNCHANGED <<docs, call, ret, bec, pc, input, output>>

\* validate-structured: the whole start callback
StructuredRun(llm, persistFails) ==
  /\ pc = "request"
  /\ input.route = "validate-structured"
  /\ LET accepts == llm.kind = "json" /\ ValidationResultSchemaAccepts(llm)
         parsed == FailingStage(llm, accepts)
         stage == IF parsed # "none" THEN parsed
                  ELSE IF persistFails THEN "insertRecord" ELSE "none"
         steps == [i \in DOMAIN StructuredSteps |-> Progress(StructuredSteps[i])]
         validatedResult == [ruleScore |-> llm.ruleScore, qualityScore |-> llm.qualityScore,
                             complete |-> llm.complete]
     IN IF stage # "none"
          THEN output' = [output EXCEPT !.events = steps \o <<ErrorEvent>>,
                                        !.failedAt = stage, !.llm = llm]
          ELSE output' = [output EXCEPT
                 !.events = steps \o <<CompleteEvent(validatedResult)>>,
                 !.llm = llm, !.result = validatedResult,
                 !.validations = Append(@, ValidationRecord(Len(@) + 1, validatedResult))]
  /\ pc' = "closed"
  /\ UNCHANGED <<docs, exs, call, ret, bec, input>>

\* validate-stream up to the first read of the generator
StreamRouteBegin ==
  /\ pc = "request"
  /\ input.route = "validate-stream"
  /\ output' = [output EXCEPT !.events = <<StepEvent("syntax", "message")>>]
  /\ pc' = "streaming"
  /\ UNCHANGED <<docs, exs, call, ret, bec, input>>

\* one iteration of for await (const chunk of invokeClaudeStream(...)) for a
\* chunk of the next n pieces: at most one start marker and at most one end
\* marker are handled
StreamRouteChunk(n) ==
  /\ pc = "streaming"
  /\ input.route = "validate-stream"
  /\ output.pos + n <= Len(LlmText(input.steps))
  /\ LET chunk == SubSeq(LlmText(input.steps), output.pos + 1, output.pos + n)
         appended == output.streamingContent \o chunk
         startMarker == FirstMarker(appended, "start")
         endMarker == FirstMarker(appended, "end")
         starts == /\ startMarker.index > 0
                   /\ output.currentStep = ""
                   /\ startMarker.type \notin output.processedSteps
         currentStep == IF starts THEN startMarker.type ELSE output.currentStep
         afterStart == IF starts
                         THEN SubSeq(appended, startMarker.index + 2, Len(appended))
                         ELSE appended
         ends == endMarker.index > 0 /\ currentStep # "" /\ endMarker.type = currentStep
         endMarkerIndex == IndexOfEnd(afterStart, currentStep)
         afterEnd == IF endMarkerIndex > 0
                       THEN SubSeq(afterStart, endMarkerIndex + 2, Len(afterStart))
                       ELSE SubSeq(afterStart, 2, Len(afterStart))
     IN output' = [output EXCEPT
          !.pos = @ + n,
          !.events = @ \o (IF starts THEN <<StepEvent(currentStep, "message")>> ELSE <<>>)
                       \o (IF ends THEN <<StepEvent(currentStep, "data")>> ELSE <<>>),
          !.processedSteps = IF ends THEN @ \cup {currentStep} ELSE @,
          !.streamingContent = IF ends THEN afterEnd ELSE afterStart,
          !.currentStep = IF ends THEN "" ELSE currentStep]
  /\ UNCHANGED <<docs, exs, call, ret, bec, pc, input>>

\* the generator is done: the completion signal and controller.close()
StreamRouteEnd ==
  /\ pc = "streaming"
  /\ input.route = "validate-stream"
  /\ output.pos = Len(LlmText(input.steps))
  /\ output' = [output EXCEPT !.events = Append(@, StreamCompleteEvent)]
  /\ pc' = "closed"
  /\ UNCHANGED <<docs, exs, call, ret, bec, input>>

\* the generator throws: a rate-limit failure is answered in the inner catch,
\* any other is rethrown to the outer one; both enqueue the error event and
\* close
StreamRouteThrows(kind) ==
  /\ pc = "streaming"
  /\ input.route = "validate-stream"
  /\ output' = [output EXCEPT !.events = Append(@, StreamErrorEvent), !.failedAt = kind]
  /\ pc' = "closed"
  /\ UNCHANGED <<docs, exs, call, ret, bec, input>>

NextValidate ==
  \/ RagBegin
  \/ \E f \in BOOLEAN : BecPantherRules(f)
  \/ \E f \in BOOLEAN : BecFunctionDocs(f)
  \/ \E f \in BOOLEAN : BecSimilarExamples(f)
  \/ BecResolve
  \/ BecReject
  \/ RagContextBuilt
  \/ RagContextFailed
  \/ \E llm \in LlmOutcomes : RagAnalyse(llm)
  \/ \E f \in BOOLEAN : RagInsertRecord(f)
  \/ \E f \in BOOLEAN : RagInsertDocRefs(f)
  \/ \E f \in BOOLEAN : RagInsertExampleRefs(f)
  \/ \E k \in 1..MaxDocs : DeleteDocument(k)
  \/ \E k \in 1..MaxExamples : DeleteExample(k)
  \/ \E llm \in LlmOutcomes, p \in BOOLEAN : StructuredRun(llm, p)
  \/ StreamRouteBegin
  \/ \E n \in 1..(5 * Len(RagSteps)) : StreamRouteChunk(n)
  \/ StreamRouteEnd
  \/ \E k \in FailureKinds : StreamRouteThrows(k)

SpecValidate == InitValidate /\ [][NextValidate]_vars

Events == output.events

\* the step of the last progress event before the final event
StepInProgress == Events[Len(Events) - 1].step

\* C16 as stated: a request that failed at some stage has an error event that
\* carries a message and names the step that failed (the step in progress
\* when the failure happened), and has no complete event
Orig_C16_ErrorNamesFailingStep ==
  (pc = "closed" /\ output.failedAt # "none"
     /\ input.route \in {"validate-rag", "validate-structured"}) =>
    /\ Events[Len(Events)].type = "error"
    /\ Events[Len(Events)].step = StepInProgress
    /\ \A i \in DOMAIN Events : Events[i].type # "complete"

\* C17 as stated: a complete event of validate-rag holds at most maxDocuments
\* documentReferences and at most maxExamples similarExamples
Orig_C17_ReferencesWithinRequestLimits ==
  (pc = "closed" /\ input.route = "validate-rag") =>
    \A i \in DOMAIN Events :
      Events[i].type = "complete" =>
        /\ Len(Events[i].result.documentReferences) <= input.maxDocuments
        /\ Len(Events[i].result.similarExamples) <= input.maxExamples

HasComplete == \E i \in DOMAIN Events : Events[i].type = "complete"

\* the LLM answer was extracted as JSON and has the required fields and both
\* scores within 0..100
AnswerPassesResultSchema ==
  /\ output.llm.kind = "json"
  /\ output.llm.complete
  /\ output.llm.ruleScore \in 0..100
  /\ output.llm.qualityScore \in 0..100

\* C24: a validation record is stored and a complete event is sent only if
\* the LLM answer was extracted as JSON and passed the result schema; an
\* answer that fails the schema ends in an error event with nothing stored;
\* every stored record has both scores within 0..100
Thm_C24_OnlySchemaValidResultsPersisted ==
  /\ (input.route \in {"validate-rag", "validate-structured"}
        /\ (output.validations # <<>> \/ HasComplete)) => AnswerPassesResultSchema
  /\ (pc = "closed" /\ output.llm.kind = "json" /\ ~AnswerPassesResultSchema) =>
       /\ Events[Len(Events)].type = "error"
       /\ ~HasComplete
       /\ output.validations = <<>>
       /\ output.docRefs = <<>>
       /\ output.exampleRefs = <<>>
  /\ \A i \in DOMAIN output.validations :
       /\ output.validations[i].ruleComplianceScore \in 0..100
       /\ output.validations[i].codeQualityScore \in 0..100

\* a JSON answer with a score of 150 ended in an error event, nothing stored
Wit_C24_OutOfRangeScoreRejected ==
  /\ pc = "closed"
  /\ output.llm.kind = "json"
  /\ output.llm.ruleScore = 150
  /\ Events[Len(Events)].type = "error"
  /\ output.validations = <<>>

DataEventsOf(step) == {i \in DOMAIN Events : Events[i] = StepEvent(step, "data")}

\* C26 as stated: when the stream of validate-stream completes, every step
\* whose start and end marker are in the LLM output has exactly one data
\* event, sent before the complete event, however the output was split into
\* chunks
Orig_C26_EveryMarkedStepEmittedOnce ==
  (input.route = "validate-stream" /\ pc = "closed" /\ HasComplete) =>
    \A k \in DOMAIN input.steps :
      /\ Cardinality(DataEventsOf(input.steps[k])) = 1
      /\ \A i \in DataEventsOf(input.steps[k]) : i < Len(Events)

IsTerminal(event) == event.type \in {"complete", "error"}

Orig_C28_PersistenceAllOrNothing ==
  (pc = "closed" /\ input.route = "validate-rag") =>
    /\ Events[Len(Events)].type = "error" =>
         /\ output.validations = <<>>
         /\ output.docRefs = <<>>
         /\ output.exampleRefs = <<>>
    /\ HasComplete =>
         /\ Len(output.validations) = 1
         /\ [i \in DOMAIN output.docRefs |-> output.docRefs[i].documentId]
              = [i \in DOMAIN output.result.documentReferences |->
                   output.result.documentReferences[i].id]
         /\ [i \in DOMAIN output.exampleRefs |-> output.exampleRefs[i].exampleId]
              = [i \in DOMAIN output.result.similarExamples |->
                   output.result.similarExamples[i].id]

(***************************************************************************)
(* Bulk ingestion (DocumentProcessor.storeDocuments) and bulk embedding    *)
(* generation (TitanEmbeddingClient.generateBulkEmbeddings), one await at  *)
(* a time.  input holds the operation and its list, pc the position in the *)
(* loop body, output the loop index, the list built so far and the log of  *)
(* what has happened; docs is the knowledge_documents table.               *)
(***************************************************************************)
MaxChunks == 3

\* setTimeout(resolve, 200) of storeDocuments
IngestDelayMs == 200

\* delayMs: number = 100 of generateBulkEmbeddings
BulkDelayMs == 100

ChunkTitles == <<"c1", "c2", "c3", "c4", "c5">>

\* the chunk lists and text lists of the runs
ChunkLists == { [i \in 1..n |-> ChunkTitles[i]] : n \in 0..MaxChunks }

CallStarted(i) == [e |-> "call", i |-> i]

CallEnded(i, ok) == [e |-> "end", i |-> i, ok |-> ok]

InsertEnded(i, ok) == [e |-> "insert", i |-> i, ok |-> ok]

Delayed(ms) == [e |-> "delay", ms |-> ms]

InitIngest ==
  /\ docs = <<>>
  /\ exs = <<>>
  /\ call = NoCall
  /\ ret = NoRet
  /\ bec = BecIdle
  /\ pc = "loop"
  /\ \E op \in {"storeDocuments", "generateBulkEmbeddings"}, chunks \in ChunkLists :
       input = [op |-> op, chunks |-> chunks]
  /\ output = [i |-> 1, list |-> <<>>, log |-> <<>>]

\* for (const chunk of chunks): preprocessText and the start of generateEmbedding
StoreEmbedStart ==
  /\ pc = "loop"
  /\ input.op = "storeDocuments"
  /\ output.i <= Len(input.chunks)
  /\ output' = [output EXCEPT !.log = Append(@, CallStarted(output.i))]
  /\ pc' = "embedding"
  /\ UNCHANGED <<docs, exs, call, ret, bec, input>>

\* StoreEmbedSettle whose catch rethrows: the failure ends storeDocuments
StoreEmbedSettleRethrows(fails) ==
  /\ pc = "embedding"
  /\ input.op = "storeDocuments"
  /\ output' = [output EXCEPT !.log = Append(@, CallEnded(output.i, ~fails))]
  /\ IF fails THEN pc' = "returned" /\ ret' = Thrown
              ELSE pc' = "inserting" /\ ret' = ret
  /\ UNCHANGED <<docs, exs, call, bec, input>>

\* generateEmbedding settles; a failure goes to the catch of the loop body,
\* which logs and lets the loop continue
StoreEmbedSettle(fails) ==
  /\ pc = "embedding"
  /\ input.op = "storeDocuments"
  /\ output' = [output EXCEPT !.log = Append(@, CallEnded(output.i, ~fails)),
                              !.i = IF fails THEN @ + 1 ELSE @]
  /\ pc' = IF fails THEN "loop" ELSE "inserting"
  /\ UNCHANGED <<docs, exs, call, ret, bec, input>>

\* db.insert(knowledgeDocuments)...returning settles; storedIds.push(stored.id)
StoreInsert(fails) ==
  /\ pc = "inserting"
  /\ IF fails
       THEN /\ output' = [output EXCEPT !.log = Append(@, InsertEnded(output.i, FALSE)),
                                        !.i = @ + 1]
            /\ pc' = "loop"
            /\ docs' = docs
       ELSE /\ docs' = Append(docs, [id |-> Len(docs) + 1, title |-> input.chunks[output.i]])
            /\ output' = [output EXCEPT !.log = Append(@, InsertEnded(output.i, TRUE)),
                                        !.list = Append(@, Len(docs) + 1)]
            /\ pc' = "sleeping"
  /\ UNCHANGED <<exs, call, ret, bec, input>>

\* await new Promise(resolve => setTimeout(resolve, 200)), the last statement
\* of the try block
StoreSleep ==
  /\ pc = "sleeping"
  /\ input.op = "storeDocuments"
  /\ output' = [output EXCEPT !.log = Append(@, Delayed(IngestDelayMs)), !.i = @ + 1]
  /\ pc' = "loop"
  /\ UNCHANGED <<docs, exs, call, ret, bec, input>>

\* return storedIds
StoreReturn ==
  /\ pc = "loop"
  /\ input.op = "storeDocuments"
  /\ output.i > Len(input.chunks)
  /\ ret' = Returned(output.list)
  /\ pc' = "returned"
  /\ UNCHANGED <<docs, exs, call, bec, input, output>>

\* for (let i = 0; i < texts.length; i++): the start of generateEmbedding
BulkEmbedStart ==
  /\ pc = "loop"
  /\ input.op = "generateBulkEmbeddings"
  /\ output.i <= Len(input.chunks)
  /\ output' = [output EXCEPT !.log = Append(@, CallStarted(output.i))]
  /\ pc' = "embedding"
  /\ UNCHANGED <<docs, exs, call, ret, bec, input>>

\* generateEmbedding settles: push the embedding and sleep unless this was the
\* last text; on a failure the catch pushes [] and the loop continues
BulkEmbedSettle(fails) ==
  /\ pc = "embedding"
  /\ input.op = "generateBulkEmbeddings"
  /\ LET sleeps == ~fails /\ output.i < Len(input.chunks)
     IN /\ output' = [output EXCEPT
                        !.log = Append(@, CallEnded(output.i, ~fails)),
                        !.list = Append(@, IF fails THEN 0 ELSE EmbeddingDimensions),
                        !.i = IF sleeps THEN @ ELSE @ + 1]
        /\ pc' = IF sleeps THEN "sleeping" ELSE "loop"
  /\ UNCHANGED <<docs, exs, call, ret, bec, input>>

\* await new Promise(resolve => setTimeout(resolve, delayMs))
BulkSleep ==
  /\ pc = "sleeping"
  /\ input.op = "generateBulkEmbeddings"
  /\ output' = [output EXCEPT !.log = Append(@, Delayed(BulkDelayMs)), !.i = @ + 1]
  /\ pc' = "loop"
  /\ UNCHANGED <<docs, exs, call, ret, bec, input>>

\* return embeddings
BulkReturn ==
  /\ pc = "loop"
  /\ input.op = "generateBulkEmbeddings"
  /\ output.i > Len(input.chunks)
  /\ ret' = Returned(output.list)
  /\ pc' = "returned"
  /\ UNCHANGED <<docs, exs, call, bec, input, output>>

NextIngest ==
  \/ StoreEmbedStart
  \/ \E f \in BOOLEAN : StoreEmbedSettle(f)
  \/ \E f \in BOOLEAN : StoreInsert(f)
  \/ StoreSleep
  \/ StoreReturn
  \/ BulkEmbedStart
  \/ \E f \in BOOLEAN : BulkEmbedSettle(f)
  \/ BulkSleep
  \/ BulkReturn

SpecIngest == InitIngest /\ [][NextIngest]_vars

Log == output.log

\* the chunks whose insert succeeded, in input order
StoredChunkIndexes ==
  SelectSeq([i \in 1..Len(input.chunks) |-> i],
            LAMBDA i : \E k \in DOMAIN Log : Log[k] = InsertEnded(i, TRUE))

\* C21: storeDocuments returns normally whatever chunks failed; an embedding
\* call was made for every chunk of the list, also for those after a failed
\* one; the table holds exactly the chunks whose embedding and insert
\* succeeded, in input order, and the returned list holds exactly their ids
Thm_C21_IngestionSkipsFailedChunks ==
  /\ input.op = "storeDocuments" => ret # Thrown
  /\ (input.op = "storeDocuments" /\ pc = "returned") =>
       /\ ret.status = "ok"
       /\ \A i \in 1..Len(input.chunks) : \E k \in DOMAIN Log : Log[k] = CallStarted(i)
       /\ Len(docs) = Len(StoredChunkIndexes)
       /\ \A k \in DOMAIN docs : docs[k].title = input.chunks[StoredChunkIndexes[k]]
       /\ ret.rows = [k \in DOMAIN docs |-> docs[k].id]
       /\ \A i \in 1..Len(input.chunks) :
            (\E k \in DOMAIN Log : Log[k] = CallEnded(i, FALSE)) =>
              \A k \in DOMAIN docs : docs[k].title # input.chunks[i]

\* storeDocuments returned after the embedding of one chunk and the insert of
\* another had failed and a later chunk was stored
Wit_C21_LaterChunkStoredAfterFailures ==
  /\ input.op = "storeDocuments"
  /\ pc = "returned"
  /\ \E i, j, k \in 1..Len(input.chunks) :
       /\ i < k /\ j < k
       /\ \E a \in DOMAIN Log : Log[a] = CallEnded(i, FALSE)
       /\ \E a \in DOMAIN Log : Log[a] = InsertEnded(j, FALSE)
       /\ \E a \in DOMAIN Log : Log[a] = InsertEnded(k, TRUE)
  /\ ret.rows # <<>>

\* C22 as stated: at most one embedding call is in flight (every call is
\* followed by its own end before anything else), the calls are made in input
\* order, and between the end of a call and the start of the next one lies
\* a delay, whether the earlier call succeeded or failed
Orig_C22_DelayBetweenAnyTwoCalls ==
  /\ \A a \in DOMAIN Log :
       Log[a].e = "call" =>
         (a < Len(Log) => (Log[a + 1].e = "end" /\ Log[a + 1].i = Log[a].i))
  /\ \A a, b \in DOMAIN Log :
       (a < b /\ Log[a].e = "call" /\ Log[b].e = "call") => Log[a].i < Log[b].i
  /\ \A a, b \in DOMAIN Log :
       (a < b /\ Log[a].e = "end" /\ Log[b].e = "call") =>
         \E d \in (a + 1)..(b - 1) : Log[d].e = "delay"

(***************************************************************************)
(* invokeClaudeStream: the retry loop of the streaming LLM call and the    *)
(* chunks its consumer receives.  input holds maxRetries and whether the   *)
(* environment is configured, pc the position in the generator, output the *)
(* attempt counter, the outcome of every attempt made, the waits slept and *)
(* the chunks yielded to the consumer.                                     *)
(***************************************************************************)
MaxRetries == 5

MaxStreamChunks == 2

BackoffBaseMs == 1000

BackoffCapMs == 10000

\* Backoff without the cap
BackoffUncapped(attempt) == BackoffBaseMs * 2 ^ attempt

\* Math.min(1000 * Math.pow(2, attempt), 10000)
Backoff(attempt) == Min(BackoffBaseMs * 2 ^ attempt, BackoffCapMs)

\* lastError.message.includes("ThrottlingException") || ...("Too many requests")
isThrottlingError(kind) == kind = "throttled"

InitStream ==
  /\ docs = <<>>
  /\ exs = <<>>
  /\ call = NoCall
  /\ ret = NoRet
  /\ bec = BecIdle
  /\ pc = "start"
  /\ \E m \in 0..MaxRetries, c \in BOOLEAN : input = [maxRetries |-> m, configured |-> c]
  /\ output = [attempt |-> 0, outcomes |-> <<>>, waits |-> <<>>, delivered |-> <<>>]

\* the checks of the environment before the loop
StreamBegin ==
  /\ pc = "start"
  /\ IF input.configured
       THEN pc' = "attempt" /\ ret' = ret
       ELSE pc' = "failed" /\ ret' = Thrown
  /\ UNCHANGED <<docs, exs, call, bec, input, output>>

\* the catch block for a failure of the given kind in the current attempt:
\* break when it was the last attempt or no throttling failure, else sleep
StreamCatch(kind) ==
  /\ output' = [output EXCEPT !.outcomes = Append(@, kind)]
  /\ IF output.attempt = input.maxRetries \/ ~isThrottlingError(kind)
       THEN pc' = "failed" /\ ret' = Thrown
       ELSE pc' = "backoff" /\ ret' = ret

\* await bedrockClient.send(command) settles
StreamSend(outcome) ==
  /\ pc = "attempt"
  /\ output.attempt <= input.maxRetries
  /\ IF outcome = "ok"
       THEN pc' = "streaming" /\ UNCHANGED <<ret, output>>
       ELSE StreamCatch(outcome)
  /\ UNCHANGED <<docs, exs, call, bec, input>>

\* the chunks the current attempt has yielded
YieldedNow == Len(SelectSeq(output.delivered, LAMBDA c : c.attempt = output.attempt))

\* for await (const chunk of response.body): yield chunkData.delta.text
StreamChunk ==
  /\ pc = "streaming"
  /\ YieldedNow < MaxStreamChunks
  /\ output' = [output EXCEPT
       !.delivered = Append(@, [attempt |-> output.attempt, index |-> YieldedNow + 1])]
  /\ UNCHANGED <<docs, exs, call, ret, bec, pc, input>>

\* the body ends: return
StreamEnd ==
  /\ pc = "streaming"
  /\ output' = [output EXCEPT !.outcomes = Append(@, "completed")]
  /\ pc' = "done"
  /\ ret' = Returned(<<>>)
  /\ UNCHANGED <<docs, exs, call, bec, input>>

\* the iteration of response.body throws
StreamBreak(kind) ==
  /\ pc = "streaming"
  /\ StreamCatch(kind)
  /\ UNCHANGED <<docs, exs, call, bec, input>>

\* await sleep(delay); attempt++
StreamBackoff ==
  /\ pc = "backoff"
  /\ output' = [output EXCEPT !.waits = Append(@, Backoff(output.attempt)),
                              !.attempt = @ + 1]
  /\ pc' = "attempt"
  /\ UNCHANGED <<docs, exs, call, ret, bec, input>>

NextStream ==
  \/ StreamBegin
  \/ \E o \in {"ok"} \cup FailureKinds : StreamSend(o)
  \/ StreamChunk
  \/ StreamEnd
  \/ \E k \in FailureKinds : StreamBreak(k)
  \/ StreamBackoff

\* every await of the generator settles and its consumer keeps reading
SpecStream == InitStream /\ [][NextStream]_vars /\ WF_vars(NextStream)

\* the wait C23 gives for retry number k
ClaimedWait(k) ==
  IF k = 0 THEN 1000
  ELSE IF k = 1 THEN 2000
  ELSE IF k = 2 THEN 4000
  ELSE IF k = 3 THEN 8000
  ELSE 10000

StreamOver == pc \in {"done", "failed"}

\* what C23 says of every state of a call
RetryDiscipline ==
  /\ Len(output.outcomes) <= input.maxRetries + 1
  /\ \A k \in DOMAIN output.outcomes :
       k < Len(output.outcomes) => output.outcomes[k] = "throttled"
  /\ (pc \in {"attempt", "streaming", "backoff"} /\ output.outcomes # <<>>) =>
       output.outcomes[Len(output.outcomes)] = "throttled"
  /\ output.attempt <= input.maxRetries
  /\ \A k \in DOMAIN output.waits : output.waits[k] = ClaimedWait(k - 1)
  /\ pc \in {"attempt", "streaming"} => Len(output.waits) = Len(output.outcomes)
  /\ (output.outcomes # <<>> /\ output.outcomes[Len(output.outcomes)] = "other") =>
       (pc = "failed" /\ ret = Thrown)
  /\ pc = "done" => output.outcomes[Len(output.outcomes)] = "completed"
  /\ pc = "failed" => ret = Thrown

\* C23: a further attempt starts only after a throttling failure and while
\* fewer than maxRetries retries were made; the wait before retry k is
\* min(1000 * 2^k, 10000) ms; another failure ends the call with a failure;
\* every call ends, after at most maxRetries + 1 attempts, by completing the
\* stream or by failing
Thm_C23_BoundedThrottlingRetries == [](RetryDiscipline) /\ <>(StreamOver)

\* the call failed after maxRetries + 1 throttled attempts, the last waits
\* being capped at 10 s
Wit_C23_RetriesExhaustedAtCap ==
  /\ pc = "failed"
  /\ Len(output.outcomes) = input.maxRetries + 1
  /\ \A k \in DOMAIN output.outcomes : output.outcomes[k] = "throttled"
  /\ Len(output.waits) >= 5
  /\ output.waits[4] = 8000
  /\ output.waits[5] = 10000

\* C27 as stated: the chunks the consumer received from one call are those of
\* one attempt; no chunk of an attempt that failed is delivered together with
\* chunks of a retried attempt
Orig_C27_ChunksOfOneAttempt ==
  \A a, b \in DOMAIN output.delivered :
    output.delivered[a].attempt = output.delivered[b].attempt

(***************************************************************************)
(* The client hooks useStreamingValidation and useStructuredValidation:    *)
(* one run of startValidation.  The response body is a sequence of         *)
(* pieces; a server event is the line "data: <json>" followed by an empty  *)
(* line, its JSON text in two pieces so that a network chunk can end       *)
(* inside it.                                                              *)
(***************************************************************************)

MaxServerEvents == 2

Hooks == {"useStreamingValidation", "useStructuredValidation"}

\* the events a terminal state follows from, and the ones before them
TerminalKinds == {"complete", "error", "fallback"}

\* error events with fallback: true are sent to the streaming hook only
EventKinds(hook) ==
  IF hook = "useStreamingValidation"
    THEN {"progress", "complete", "error", "fallback"}
    ELSE {"progress", "complete", "error"}

\* data: ${JSON.stringify(event)}\n\n
EventLine(kind) == <<"data: ", kind, "}", "\n", "\n">>

RECURSIVE ResponseBody(_)
ResponseBody(kinds) ==
  IF kinds = <<>> THEN <<>> ELSE EventLine(Head(kinds)) \o ResponseBody(Tail(kinds))

\* the event sequences a response carries: a terminal event is the last one,
\* and a response can end without one
EventSequences(hook) ==
  { kinds \in UNION { [1..n -> EventKinds(hook)] : n \in 0..MaxServerEvents } :
      \A i \in DOMAIN kinds : kinds[i] \in TerminalKinds => i = Len(kinds) }

\* chunk.split('\n')
RECURSIVE SplitNewline(_, _)
SplitNewline(chunk, line) ==
  IF chunk = <<>> THEN <<line>>
  ELSE IF Head(chunk) = "\n" THEN <<line>> \o SplitNewline(Tail(chunk), <<>>)
  ELSE SplitNewline(Tail(chunk), Append(line, Head(chunk)))

\* line.startsWith('data: ') and JSON.parse(line.slice(6)) does not throw
ParseLine(line) ==
  IF Len(line) = 3 /\ line[1] = "data: " /\ line[3] = "}" THEN line[2] ELSE "none"

\* the handling of one parsed event by the hook
HandleEvent(hook, st, kind) ==
  IF kind = "none" THEN st
  ELSE IF kind = "progress" THEN [st EXCEPT !.handled = Append(@, kind)]
  ELSE IF kind = "fallback"
    THEN [st EXCEPT !.handled = Append(@, kind), !.error = "error", !.fallback = TRUE]
  ELSE [st EXCEPT !.handled = Append(@, kind), !.flag = FALSE,
                  !.error = IF kind = "error" THEN "error" ELSE @]

\* for (const line of lines): the streaming hook returns from the loop at a
\* fallback event
RECURSIVE HandleLines(_, _, _)
HandleLines(hook, st, lines) ==
  IF lines = <<>> \/ st.fallback THEN st
  ELSE HandleLines(hook, HandleEvent(hook, st, ParseLine(Head(lines))), Tail(lines))

InitClient ==
  /\ docs = <<>>
  /\ exs = <<>>
  /\ call = NoCall
  /\ ret = NoRet
  /\ bec = BecIdle
  /\ pc = "idle"
  /\ \E h \in Hooks : \E kinds \in EventSequences(h) :
       input = [hook |-> h, kinds |-> kinds, body |-> ResponseBody(kinds)]
  /\ output = [flag |-> FALSE, pos |-> 0, error |-> "none", handled |-> <<>>,
               fallback |-> FALSE]

\* setState({ isStreaming: true, ... }) and the new AbortController
ClientStart ==
  /\ pc = "idle"
  /\ output' = [output EXCEPT !.flag = TRUE]
  /\ pc' = "fetch"
  /\ UNCHANGED <<docs, exs, call, ret, bec, input>>

\* await fetch(...), !response.ok, !response.body
ClientFetch(outcome) ==
  /\ pc = "fetch"
  /\ IF outcome = "ok"
       THEN pc' = "read" /\ output' = output
       ELSE pc' = "returned" /\ output' = [output EXCEPT !.flag = FALSE, !.error = outcome]
  /\ UNCHANGED <<docs, exs, call, ret, bec, input>>

\* cancelValidation while the fetch or a read is awaited: the AbortError branch
ClientCancel ==
  /\ pc \in {"fetch", "read"}
  /\ output' = [output EXCEPT !.flag = FALSE, !.error = "Validation was cancelled"]
  /\ pc' = "returned"
  /\ UNCHANGED <<docs, exs, call, ret, bec, input>>

\* reader.read() resolves with the next n pieces of the body
ClientRead(n) ==
  /\ pc = "read"
  /\ output.pos + n <= Len(input.body)
  /\ LET chunk == SubSeq(input.body, output.pos + 1, output.pos + n)
         st == HandleLines(input.hook, output, SplitNewline(chunk, <<>>))
     IN  /\ output' = [st EXCEPT !.pos = output.pos + n]
         /\ pc' = IF st.fallback THEN "fallback" ELSE "read"
  /\ UNCHANGED <<docs, exs, call, ret, bec, input>>

\* reader.read() rejects: the catch block's other branch
ClientReadFails ==
  /\ pc = "read"
  /\ output.pos < Len(input.body)
  /\ output' = [output EXCEPT !.flag = FALSE, !.error = "network"]
  /\ pc' = "returned"
  /\ UNCHANGED <<docs, exs, call, ret, bec, input>>

\* reader.read() resolves with done: break, and startValidation returns
ClientDone ==
  /\ pc = "read"
  /\ output.pos = Len(input.body)
  /\ pc' = "returned"
  /\ UNCHANGED <<docs, exs, call, ret, bec, input, output>>

\* handleFallback: both of its branches clear the flag
ClientFallback(ok) ==
  /\ pc = "fallback"
  /\ output' = [output EXCEPT !.flag = FALSE,
                              !.error = IF ok THEN "none" ELSE "Fallback failed"]
  /\ pc' = "returned"
  /\ UNCHANGED <<docs, exs, call, ret, bec, input>>

NextClient ==
  \/ ClientStart
  \/ \E o \in {"ok", "http", "network"} : ClientFetch(o)
  \/ ClientCancel
  \/ \E n \in 1..(5 * MaxServerEvents) : ClientRead(n)
  \/ ClientReadFails
  \/ ClientDone
  \/ \E ok \in BOOLEAN : ClientFallback(ok)

\* every awaited promise of a run settles
SpecClient == InitClient /\ [][NextClient]_vars /\ WF_vars(NextClient)

\* C30: once startValidation has returned (the response stream ended, the
\* fetch failed or the run was cancelled), the in-progress flag of the hook is
\* eventually false, however the events were split across chunks and also when
\* no terminal event was parsed.
Orig_C30_FlagEventuallyCleared == (pc = "returned") ~> (output.flag = FALSE)

====
